---- MODULE Spec2Model ----
(***************************************************************************)
(* Model of the Panora unified-API services found in the repository:       *)
(*   - filestorage group SyncService (scheduleSyncJob, syncGroups,         *)
(*     syncGroupsForLinkedUser, saveGroupsInDb),                           *)
(*   - ATS InterviewService (getInterviews cursor pagination).             *)
(* Database tables are sets of rows; uuidv4() is a fresh-id counter and    *)
(* new Date() is a logical clock that advances once per service call.      *)
(***************************************************************************)
EXTENDS Integers, Sequences, FiniteSets, TLC

VARIABLES
  fs_groups,      \* table fs_groups
  entity,         \* table entity
  value,          \* table value
  remote_data,    \* table remote_data (ressource_owner_id is unique)
  events,         \* table events, in creation order
  webhooks,       \* webhooks handed to WebhookService.handleWebhook, in order
  nextId,         \* next value uuidv4() returns
  now,            \* value new Date() returns; one tick per service call
  call,           \* the saveGroupsInDb invocation in flight
  lastSave,       \* outcome of the latest saveGroupsInDb run
  ats_interviews, \* table ats_interviews
  page,           \* arguments and outcome of the latest getInterviews call
  walk,           \* a client paging through getInterviews
  syncQueue,      \* repeatable jobs of the 'syncTasks' queue
  inits,          \* how many times onModuleInit has run
  run,            \* the syncGroups run in progress
  tasks,          \* the per-linked-user callbacks of the run and their calls
  lastRun,        \* outcome of the latest syncGroupsForLinkedUser call
  auth_users,     \* table users as AuthService reads and writes it
  auth_projects,  \* table projects as AuthService and ProjectsService use it
  api_keys,       \* table api_keys (api_key_hash is unique)
  registers,      \* register calls in flight
  lastAuth,       \* outcome of the latest AuthService step
  lastAdd,        \* outcome of the latest addInterview call
  ticket,         \* a unified ticket on its way through the Zendesk mapper
  ats_candidate_attachments, \* table ats_candidate_attachments
  savers          \* saveToDb runs in flight

vars == <<fs_groups, entity, value, remote_data, events, webhooks, nextId, now,
          call, lastSave, ats_interviews, page, walk, syncQueue, inits, run,
          tasks, lastRun, auth_users, auth_projects, api_keys, registers,
          lastAuth, lastAdd, ticket, ats_candidate_attachments, savers>>

interviewVars == <<ats_interviews, page, walk, lastAdd>>

authVars == <<auth_users, auth_projects, api_keys, registers, lastAuth>>

mapperVars == <<ticket>>

attachmentVars == <<ats_candidate_attachments, savers>>

saveVars == <<call, lastSave>>

syncVars == <<run, tasks, lastRun>>

queueVars == <<syncQueue, inits>>

(***************************************************************************)
(* Bounds of the model.                                                    *)
(***************************************************************************)
MaxCalls == 2      \* service calls per behaviour
MaxGroups == 2     \* groups in one saveGroupsInDb batch

(***************************************************************************)
(* JavaScript values.  null and undefined are the string Null; a column or *)
(* property that is absent holds Null.                                     *)
(***************************************************************************)
Null == "<null>"

\* JS truthiness of a string-or-null value: `if (x)`.
Truthy(x) == x # Null /\ x # ""

(***************************************************************************)
(* Static rows: connections and attribute are only read by the code under  *)
(* study.                                                                  *)
(***************************************************************************)
connections ==
  { [id_connection |-> "c1", id_linked_user |-> "lu1", provider_slug |-> "box",
     vertical |-> "filestorage"],
    [id_connection |-> "c2", id_linked_user |-> "lu2", provider_slug |-> "box",
     vertical |-> "filestorage"],
    [id_connection |-> "c3", id_linked_user |-> "lu3", provider_slug |-> "box",
     vertical |-> "ticketing"],
    [id_connection |-> "k1", id_linked_user |-> "lu1", provider_slug |-> "ashby",
     vertical |-> "ats"],
    [id_connection |-> "k2", id_linked_user |-> "lu2", provider_slug |-> "ashby",
     vertical |-> "ats"] }

attribute ==
  { [id_attribute |-> "a1", slug |-> "color", source |-> "box", id_consumer |-> "lu1"],
    [id_attribute |-> "a2", slug |-> "length", source |-> "box", id_consumer |-> "lu1"] }

(***************************************************************************)
(* field_mappings of a unified object.  Mappers build it as a plain object *)
(* keyed by slug (kind "object", entries = its key/value pairs in          *)
(* insertion order); services that read objects back build it as an array  *)
(* of single-key objects (kind "array", entries[i] = the pair of element   *)
(* i-1).  kind "none" is an absent property.                               *)
(***************************************************************************)
NoMappings == [kind |-> "none", entries |-> <<>>]

ObjectMappings(es) == [kind |-> "object", entries |-> es]

ArrayMappings(es) == [kind |-> "array", entries |-> es]

\* Number(v) > 0 for the property values of the model: "7" converts to 7,
\* any other string to NaN or 0, undefined to NaN.
JsGreaterThanZero(v) == v = "7"

\* fm.length: an array's element count; on a plain object, its own property
\* named "length" if it has one, else undefined.
HasPositiveLength(fm) ==
  CASE fm.kind = "array" -> Len(fm.entries) > 0
    [] fm.kind = "object" ->
         \E k \in 1..Len(fm.entries) :
           fm.entries[k][1] = "length" /\ JsGreaterThanZero(fm.entries[k][2])
    [] OTHER -> FALSE

\* Object.entries(fm): an object's own pairs; an array's pairs are
\* (index as string, element), the element being an object.
IndexKey(i) == ToString(i - 1)

ObjectEntries(fm) ==
  IF fm.kind = "array"
    THEN [k \in 1..Len(fm.entries) |-> <<IndexKey(k), "[object Object]">>]
    ELSE fm.entries

\* JSON.stringify(x) and JSON.parse(s)
JsonStringify(x) == <<"json", x>>

JsonParse(s) == s[2]

\* The n-th value uuidv4() returns.
Uuid(n) == "u" \o ToString(n)

\* Buffer.from(s).toString('base64')
Base64(s) == "b64:" \o s

(***************************************************************************)
(* SyncService.saveGroupsInDb                                              *)
(***************************************************************************)
Tables == [fs_groups |-> fs_groups, entity |-> entity, value |-> value,
           remote_data |-> remote_data, nextId |-> nextId]

\* prisma.fs_groups.findFirst({ where: { remote_id, id_connection } }):
\* the rows the where clause selects (findFirst returns one of them or null).
FindFirstGroupNone(rows, originId, connection_id) == {}

FindFirstGroup(rows, originId, connection_id) ==
  {r \in rows : r.remote_id = originId /\ r.id_connection = connection_id}

\* The existingGroup branch: prisma.fs_groups.update by id_fs_group.  users
\* is an array, carried as a string ("[]" the empty array, truthy as every
\* array is) and Null when the property is absent.
UpdateGroupOverwrite(db, existingGroup, group, t) ==
  LET res == [existingGroup EXCEPT
                !.modified_at = t,
                !.name = group.name,
                !.users = group.users,
                !.remote_was_deleted = group.remote_was_deleted]
  IN [db |-> [db EXCEPT !.fs_groups =
                 {IF r.id_fs_group = existingGroup.id_fs_group THEN res ELSE r : r \in @}],
      row |-> res]

UpdateGroup(db, existingGroup, group, t) ==
  LET res == [existingGroup EXCEPT
                !.modified_at = t,
                !.name = IF Truthy(group.name) THEN group.name ELSE @,
                !.users = IF Truthy(group.users) THEN group.users ELSE @,
                !.remote_was_deleted = IF group.remote_was_deleted THEN TRUE ELSE @]
  IN [db |-> [db EXCEPT !.fs_groups =
                 {IF r.id_fs_group = existingGroup.id_fs_group THEN res ELSE r : r \in @}],
      row |-> res]

\* The else branch: prisma.fs_groups.create with a fresh uuid.
CreateGroup(db, group, connection_id, t) ==
  LET newGroup == [id_fs_group |-> Uuid(db.nextId),
                   created_at |-> t,
                   modified_at |-> t,
                   remote_id |-> group.remote_id,
                   id_connection |-> connection_id,
                   name |-> IF Truthy(group.name) THEN group.name ELSE Null,
                   users |-> IF Truthy(group.users) THEN group.users ELSE Null,
                   remote_was_deleted |-> group.remote_was_deleted]
  IN [db |-> [db EXCEPT !.fs_groups = @ \cup {newGroup}, !.nextId = @ + 1],
      row |-> newGroup]

UpsertGroup(db, group, connection_id, t) ==
  LET matches == FindFirstGroup(db.fs_groups, group.remote_id, connection_id)
  IN IF matches # {}
       THEN UpdateGroup(db, CHOOSE r \in matches : TRUE, group, t)
       ELSE CreateGroup(db, group, connection_id, t)

\* prisma.attribute.findFirst({ where: { slug, source, id_consumer } })
FindAttribute(slug, originSource, linkedUserId) ==
  {a \in attribute :
     a.slug = slug /\ a.source = originSource /\ a.id_consumer = linkedUserId}

\* for (const [slug, value] of Object.entries(group.field_mappings)) { ... }
RECURSIVE CreateValues(_, _, _, _, _, _)
CreateValues(db, pairs, k, id_entity, originSource, linkedUserId) ==
  IF k > Len(pairs) THEN db
  ELSE
    LET found == FindAttribute(pairs[k][1], originSource, linkedUserId)
        db1 == IF found = {} THEN db
               ELSE [db EXCEPT
                       !.value = @ \cup
                         {[id_value |-> Uuid(db.nextId),
                           data |-> IF Truthy(pairs[k][2]) THEN pairs[k][2] ELSE "null",
                           id_attribute |-> (CHOOSE a \in found : TRUE).id_attribute,
                           id_entity |-> id_entity]},
                       !.nextId = @ + 1]
    IN CreateValues(db1, pairs, k + 1, id_entity, originSource, linkedUserId)

\* if (group.field_mappings && group.field_mappings.length > 0) { ... }
FieldMappingsGuard(fm) == fm.kind # "none" /\ HasPositiveLength(fm)

StoreFieldMappings(db, group, owner_id, originSource, linkedUserId) ==
  IF FieldMappingsGuard(group.field_mappings)
    THEN LET id_entity == Uuid(db.nextId)
             db1 == [db EXCEPT
                       !.entity = @ \cup {[id_entity |-> id_entity,
                                           ressource_owner_id |-> owner_id]},
                       !.nextId = @ + 1]
         IN CreateValues(db1, ObjectEntries(group.field_mappings), 1, id_entity,
                         originSource, linkedUserId)
    ELSE db

CreateRemoteData(db, owner_id, raw, t) ==
  [db EXCEPT
     !.remote_data = @ \cup {[id_remote_data |-> Uuid(db.nextId),
                              ressource_owner_id |-> owner_id,
                              format |-> "json",
                              data |-> JsonStringify(raw),
                              created_at |-> t]},
     !.nextId = @ + 1]

\* prisma.remote_data.upsert({ where: { ressource_owner_id }, create, update })
UpsertRemoteData(db, owner_id, raw, t) ==
  IF \E r \in db.remote_data : r.ressource_owner_id = owner_id
    THEN [db EXCEPT !.remote_data =
            {IF r.ressource_owner_id = owner_id
               THEN [r EXCEPT !.data = JsonStringify(raw), !.created_at = t]
               ELSE r : r \in @}]
    ELSE [db EXCEPT
            !.remote_data = @ \cup {[id_remote_data |-> Uuid(db.nextId),
                                     ressource_owner_id |-> owner_id,
                                     format |-> "json",
                                     data |-> JsonStringify(raw),
                                     created_at |-> t]},
            !.nextId = @ + 1]

\* The loop of saveGroupsInDb from index i on.  The result holds the tables
\* as the call leaves them, groups_results, and the error thrown (Null when
\* the call returns); writes made before a throw stay.
RECURSIVE SaveGroupsFrom(_, _, _, _, _, _, _, _, _)
SaveGroupsFrom(db, groups_results, i, connection_id, linkedUserId, groups, originSource, raw, t) ==
  IF i > Len(groups)
    THEN [db |-> db, results |-> groups_results, error |-> Null, done |-> Len(groups)]
  ELSE IF ~Truthy(groups[i].remote_id)
    THEN [db |-> db, results |-> groups_results, error |-> "ReferenceError",
          done |-> i - 1]
  ELSE
    LET up == UpsertGroup(db, groups[i], connection_id, t)
        db1 == StoreFieldMappings(up.db, groups[i], up.row.id_fs_group,
                                  originSource, linkedUserId)
        db2 == UpsertRemoteData(db1, up.row.id_fs_group, raw[i], t)
    IN SaveGroupsFrom(db2, Append(groups_results, up.row), i + 1, connection_id,
                      linkedUserId, groups, originSource, raw, t)

saveGroupsInDb(db, connection_id, linkedUserId, groups, originSource, raw, t) ==
  SaveGroupsFrom(db, <<>>, 1, connection_id, linkedUserId, groups, originSource,
                 raw, t)

(***************************************************************************)
(* Invocations of saveGroupsInDb.  `call` is the invocation in flight: the *)
(* arguments syncGroupsForLinkedUser passes for a connection (its id, its  *)
(* linked user, its provider slug, the unified groups and the provider's   *)
(* objects they were unified from).  ran tells that the handler has run    *)
(* with these arguments and is about to run with them again (the next sync *)
(* fetched the same data).                                                 *)
(***************************************************************************)
SeqsUpTo(S, n) == UNION {[1..k -> S] : k \in 0..n}

FileStorageConnections == {c \in connections : c.vertical = "filestorage"}

NoCall == [pending |-> FALSE]

NoSave == [seq |-> 0, error |-> Null, done |-> 0]

NoPage == [seq |-> 0]

NoRun == [started |-> FALSE, user_id |-> Null, todo |-> {}, error |-> Null]

NoSyncCall == [seq |-> 0]

\* The sync machinery at rest: nothing scheduled, no run started.
InitIdleSync ==
  /\ syncQueue = {}
  /\ inits = 0
  /\ run = NoRun
  /\ tasks = {}
  /\ lastRun = NoSyncCall

NoWalk == [active |-> FALSE]

NoAuth == [seq |-> 0, op |-> "none", history |-> {}]

NoAdd == [seq |-> 0]

NoTicket == [stage |-> "none"]

\* AuthService, the Zendesk mapper and the attachment sync at rest.
InitIdleRest ==
  /\ auth_users = {}
  /\ auth_projects = {}
  /\ api_keys = {}
  /\ registers = {}
  /\ lastAuth = NoAuth
  /\ lastAdd = NoAdd
  /\ ticket = NoTicket
  /\ ats_candidate_attachments = {}
  /\ savers = {}

\* The tables of the sync and interview services empty, nothing in flight.
InitIdleCore ==
  /\ fs_groups = {}
  /\ entity = {}
  /\ value = {}
  /\ remote_data = {}
  /\ events = <<>>
  /\ webhooks = <<>>
  /\ nextId = 1
  /\ now = 0
  /\ call = NoCall
  /\ lastSave = NoSave
  /\ ats_interviews = {}
  /\ page = NoPage
  /\ walk = NoWalk
  /\ InitIdleSync

Group(remote_id, name, remote_was_deleted, field_mappings) ==
  [remote_id |-> remote_id, name |-> name, users |-> Null,
   remote_was_deleted |-> remote_was_deleted, field_mappings |-> field_mappings]

\* Items that differ in name, users and remote_was_deleted.
UpdateItems ==
  {[group |-> [Group(x[1], x[2], x[4], NoMappings) EXCEPT !.users = x[3]],
    raw |-> "rawA"] :
     x \in {<<"g1", "eng", "[u1]", TRUE>>, <<"g1", "", "[u2]", FALSE>>,
            <<"g1", "ops", Null, FALSE>>}}

\* Items of a batch: a unified group with the provider object it came from.
KeyItems ==
  {[group |-> Group(x[1], "eng", FALSE, NoMappings), raw |-> x[2]] :
     x \in {<<"", "rawA">>, <<"g1", "rawA">>, <<"g1", "rawB">>, <<"g2", "rawA">>}}

MappingItems ==
  {[group |-> Group("g1", "eng", FALSE, fm), raw |-> "rawA"] :
     fm \in { NoMappings,
              ObjectMappings(<< <<"color", "red">> >>),
              ObjectMappings(<< <<"length", "7">>, <<"color", "red">> >>),
              ObjectMappings(<< <<"size", "7">> >>),
              ArrayMappings(<< <<"color", "red">> >>) }}

SaveRequest(Items) ==
  /\ ~call.pending
  /\ now < MaxCalls
  /\ \E c \in FileStorageConnections, batch \in SeqsUpTo(Items, MaxGroups) :
       call' = [pending |-> TRUE, ran |-> FALSE,
                connection_id |-> c.id_connection,
                linkedUserId |-> c.id_linked_user,
                groups |-> [k \in 1..Len(batch) |-> batch[k].group],
                originSource |-> c.provider_slug,
                raw |-> [k \in 1..Len(batch) |-> batch[k].raw]]
  /\ UNCHANGED <<fs_groups, entity, value, remote_data, events, webhooks, nextId,
                 now, lastSave, interviewVars, syncVars, queueVars,
                 authVars, mapperVars, attachmentVars>>

\* One run of saveGroupsInDb with the arguments in flight.
SaveGroupsInDbRun ==
  /\ call.pending
  /\ now < MaxCalls
  /\ LET out == saveGroupsInDb(Tables, call.connection_id, call.linkedUserId,
                               call.groups, call.originSource, call.raw, now + 1)
     IN /\ fs_groups' = out.db.fs_groups
        /\ entity' = out.db.entity
        /\ value' = out.db.value
        /\ remote_data' = out.db.remote_data
        /\ nextId' = out.db.nextId
        /\ lastSave' = [seq |-> now + 1, error |-> out.error, done |-> out.done]
  /\ now' = now + 1
  /\ call' \in {NoCall, [call EXCEPT !.ran = TRUE]}
  /\ UNCHANGED <<events, webhooks, interviewVars, syncVars, queueVars,
                 authVars, mapperVars, attachmentVars>>

InitSave ==
  /\ fs_groups = {}
  /\ entity = {}
  /\ value = {}
  /\ remote_data = {}
  /\ events = <<>>
  /\ webhooks = <<>>
  /\ nextId = 1
  /\ now = 0
  /\ call = NoCall
  /\ lastSave = NoSave
  /\ ats_interviews = {}
  /\ page = NoPage
  /\ walk = NoWalk
  /\ InitIdleSync
  /\ InitIdleRest

\* saveGroupsInDb over batches that differ in remote_id and provider payload.
SaveKeysRequest == SaveRequest(KeyItems)

NextSaveKeys == SaveKeysRequest \/ SaveGroupsInDbRun

SpecSaveKeys == InitSave /\ [][NextSaveKeys]_vars

\* saveGroupsInDb over batches that differ in field_mappings.
SaveMappingsRequest == SaveRequest(MappingItems)

NextSaveMappings == SaveMappingsRequest \/ SaveGroupsInDbRun

SpecSaveMappings == InitSave /\ [][NextSaveMappings]_vars

\* saveGroupsInDb over batches that differ in name, users, remote_was_deleted.
SaveUpdatesRequest == SaveRequest(UpdateItems)

NextSaveUpdates == SaveUpdatesRequest \/ SaveGroupsInDbRun

SpecSaveUpdates == InitSave /\ [][NextSaveUpdates]_vars

(***************************************************************************)
(* Properties of saveGroupsInDb.                                           *)
(***************************************************************************)
\* A step that is one run of saveGroupsInDb, with the arguments in `call`.
IsSaveRun == call.pending /\ now' = now + 1

KeyOf(r) == <<r.remote_id, r.id_connection>>

KeysOf(rows) == {KeyOf(r) : r \in rows}

OneRowPerPair(rows) == \A r1, r2 \in rows : KeyOf(r1) = KeyOf(r2) => r1 = r2

\* The pairs of the groups a run got through before it returned or threw.
ProcessedKeys(c, done) == {<<c.groups[i].remote_id, c.connection_id>> : i \in 1..done}

\* C1: after every run of saveGroupsInDb (runs do not overlap) fs_groups holds
\* at most one row per (remote_id, id_connection); every row that existed keeps
\* its id and its pair (it is updated in place), and the run adds exactly one
\* row for each processed pair that had no row.
C1_OneRowPerRemoteIdAndConnection ==
  [][IsSaveRun =>
       /\ OneRowPerPair(fs_groups')
       /\ \A r \in fs_groups :
            \E r2 \in fs_groups' :
              r2.id_fs_group = r.id_fs_group /\ KeyOf(r2) = KeyOf(r)
       /\ KeysOf(fs_groups') =
            KeysOf(fs_groups) \cup ProcessedKeys(call, lastSave'.done)
       /\ Cardinality(fs_groups') =
            Cardinality(fs_groups)
              + Cardinality(ProcessedKeys(call, lastSave'.done) \ KeysOf(fs_groups))
    ]_vars

\* C1 witness: a second run has updated a row in place while another pair
\* has its own row.
C1_Witness ==
  /\ lastSave.seq = 2
  /\ Cardinality(fs_groups) >= 2
  /\ \E r \in fs_groups : r.modified_at > r.created_at

StripGroup(r) == [remote_id |-> r.remote_id, id_connection |-> r.id_connection,
                  name |-> r.name, remote_was_deleted |-> r.remote_was_deleted]

StripRemoteData(r) == [ressource_owner_id |-> r.ressource_owner_id,
                       format |-> r.format, data |-> r.data]

\* C2: a run of saveGroupsInDb that directly follows a run with the same
\* arguments leaves fs_groups and remote_data as they were up to timestamps,
\* and adds no entity row and no value row.
C2_SecondRunIsIdempotent ==
  [][(IsSaveRun /\ call.ran) =>
       /\ {StripGroup(r) : r \in fs_groups'} = {StripGroup(r) : r \in fs_groups}
       /\ Cardinality(fs_groups') = Cardinality(fs_groups)
       /\ {StripRemoteData(r) : r \in remote_data'}
            = {StripRemoteData(r) : r \in remote_data}
       /\ Cardinality(remote_data') = Cardinality(remote_data)
       /\ entity' = entity
       /\ value' = value
    ]_vars

\* The (slug, value) pairs a field_mappings maps.
MappedPairs(fm) == {fm.entries[k] : k \in 1..Len(fm.entries)}

\* C10: a run of saveGroupsInDb creates, for every stored group and every
\* slug its field_mappings maps to a value for which an attribute
\* (slug, originSource, linkedUserId) exists, a value row holding that value,
\* connected to that attribute and to an entity owned by the group's row; and
\* every value row it creates belongs to such a slug.
C10_FieldMappingsStoredAsValues ==
  [][IsSaveRun =>
       /\ \A i \in 1..lastSave'.done :
            \A p \in MappedPairs(call.groups[i].field_mappings) :
              \A a \in FindAttribute(p[1], call.originSource, call.linkedUserId) :
                \E v \in value' \ value, e \in entity', g \in fs_groups' :
                  /\ v.data = p[2]
                  /\ v.id_attribute = a.id_attribute
                  /\ v.id_entity = e.id_entity
                  /\ e.ressource_owner_id = g.id_fs_group
                  /\ KeyOf(g) = <<call.groups[i].remote_id, call.connection_id>>
       /\ \A v \in value' \ value :
            \E i \in 1..lastSave'.done :
              \E p \in MappedPairs(call.groups[i].field_mappings) :
                \E a \in FindAttribute(p[1], call.originSource, call.linkedUserId) :
                  v.id_attribute = a.id_attribute
    ]_vars

\* C11: after a run of saveGroupsInDb, the group of every processed index has
\* exactly one remote_data row (ressource_owner_id = the group's id), and
\* that row's data is the JSON of the provider object at the last processed
\* index of that group in this run: earlier payloads are replaced.
C11_OneRemoteDataRowPerGroup ==
  [][IsSaveRun =>
       \A i \in 1..lastSave'.done :
         \A g \in fs_groups' :
           KeyOf(g) = <<call.groups[i].remote_id, call.connection_id>> =>
             LET rows == {r \in remote_data' : r.ressource_owner_id = g.id_fs_group}
                 last == \A j \in (i + 1)..lastSave'.done :
                           call.groups[j].remote_id # call.groups[i].remote_id
             IN /\ Cardinality(rows) = 1
                /\ last => \A r \in rows : r.data = JsonStringify(call.raw[i])
    ]_vars

\* A second run has replaced the payload of a group the first run stored.
C11_Witness ==
  /\ lastSave.seq = 2
  /\ \E g \in fs_groups, r \in remote_data :
       /\ g.created_at = 1
       /\ r.ressource_owner_id = g.id_fs_group
       /\ r.created_at = 2
       /\ r.data = JsonStringify("rawB")
       /\ Cardinality({x \in remote_data : x.ressource_owner_id = g.id_fs_group}) = 1

(***************************************************************************)
(* InterviewService.getInterviews                                          *)
(***************************************************************************)
MaxLimit == 2      \* largest `limit` a caller passes
MaxPages == 4      \* getInterviews calls of one paging client

RECURSIVE SetToSeq(_)
SetToSeq(S) ==
  IF S = {} THEN <<>>
  ELSE LET x == CHOOSE y \in S : TRUE IN <<x>> \o SetToSeq(S \ {x})

\* fieldMappingsMap.set(slug, data) on the Map's entries, kept in insertion order.
MapSet(pairs, slug, data) ==
  IF \E k \in 1..Len(pairs) : pairs[k][1] = slug
    THEN [k \in 1..Len(pairs) |->
            IF pairs[k][1] = slug THEN <<slug, data>> ELSE pairs[k]]
    ELSE Append(pairs, <<slug, data>>)

RECURSIVE FieldMappingsMap(_, _, _)
FieldMappingsMap(values, k, pairs) ==
  IF k > Len(values) THEN pairs
  ELSE LET slug == (CHOOSE a \in attribute :
                      a.id_attribute = values[k].id_attribute).slug
       IN FieldMappingsMap(values, k + 1, MapSet(pairs, slug, values[k].data))

\* prisma.value.findMany({ where: { entity: { ressource_owner_id } } }) and the
\* array of single-key objects built from it.
FieldMappingsOf(owner_id) ==
  LET values == SetToSeq({v \in value :
                   \E e \in entity : /\ e.id_entity = v.id_entity
                                     /\ e.ressource_owner_id = owner_id})
  IN ArrayMappings(FieldMappingsMap(values, 1, <<>>))

\* prisma.ats_interviews.findFirst({ where: { id_connection, id_ats_interview } })
FindCursorAnyConnection(connection_id, cursor) ==
  {r \in ats_interviews : r.id_ats_interview = cursor}

FindCursor(connection_id, cursor) ==
  {r \in ats_interviews :
     r.id_connection = connection_id /\ r.id_ats_interview = cursor}

\* The orders in which the database may return the rows of a connection for
\* orderBy: { created_at: 'asc' }: ascending created_at, rows with equal
\* created_at in any order.
ScanOrders(connection_id) ==
  LET rows == {r \in ats_interviews : r.id_connection = connection_id}
      n == Cardinality(rows)
  IN {s \in [1..n -> rows] :
        /\ \A a, b \in 1..n : a # b => s[a] # s[b]
        /\ \A a, b \in 1..n : a < b => s[a].created_at <= s[b].created_at}

Min(a, b) == IF a < b THEN a ELSE b

\* prisma.ats_interviews.findMany({ take, cursor, orderBy, where }) on the
\* scan order `scan`: the rows from the cursor row on, at most `take` of them.
\* Position of the cursor row in the scan; past its end when no row of the
\* scan has that id (the query then returns nothing).
CursorStart(scan, cursor) ==
  IF ~Truthy(cursor) THEN 1
  ELSE IF \E k \in 1..Len(scan) : scan[k].id_ats_interview = cursor
    THEN CHOOSE k \in 1..Len(scan) : scan[k].id_ats_interview = cursor
    ELSE Len(scan) + 1

FindManyInterviewsTakeLimit(scan, cursor, take) ==
  SubSeq(scan, CursorStart(scan, cursor),
         Min(Len(scan), CursorStart(scan, cursor) + take - 2))

FindManyInterviews(scan, cursor, take) ==
  SubSeq(scan, CursorStart(scan, cursor),
         Min(Len(scan), CursorStart(scan, cursor) + take - 1))

\* One element of the result: the unified interview, with remote_data when
\* asked for.
UnifiedInterview(interview, with_remote_data) ==
  LET resp == {r \in remote_data : r.ressource_owner_id = interview.id_ats_interview}
  IN [id |-> interview.id_ats_interview,
      created_at |-> interview.created_at,
      field_mappings |-> FieldMappingsOf(interview.id_ats_interview),
      remote_data |-> IF with_remote_data
                        THEN JsonParse((CHOOSE r \in resp : TRUE).data)
                        ELSE Null]

PullEvent(id, integrationId, linkedUserId) ==
  [id_event |-> id, status |-> "success", type |-> "ats.interview.pull",
   method |-> "GET", url |-> "/ats/interviews", provider |-> integrationId,
   id_linked_user |-> linkedUserId]

Thrown(error) ==
  [error |-> error, data |-> <<>>, prev_cursor |-> Null, next_cursor |-> Null,
   event |-> <<>>]

\* getInterviews on the current tables, the database answering findMany in
\* the order `scan`.  error is what the call throws (Null when it returns);
\* event is the events row it creates, as a sequence of zero or one rows.
getInterviews(scan, connection_id, integrationId, linkedUserId, limit, with_remote_data, cursor) ==
  IF Truthy(cursor) /\ FindCursor(connection_id, cursor) = {}
    THEN Thrown("ReferenceError: The provided cursor does not exist!")
  ELSE
    LET found == FindManyInterviews(scan, cursor, limit + 1)
        more == Len(found) = limit + 1
        interviews == IF more THEN SubSeq(found, 1, Len(found) - 1) ELSE found
    IN IF with_remote_data /\ \E k \in 1..Len(interviews) :
            \A r \in remote_data :
              r.ressource_owner_id # interviews[k].id_ats_interview
         THEN Thrown("TypeError")
         ELSE [error |-> Null,
               data |-> [k \in 1..Len(interviews) |->
                           UnifiedInterview(interviews[k], with_remote_data)],
               prev_cursor |-> IF Truthy(cursor) THEN Base64(cursor) ELSE Null,
               next_cursor |-> IF more
                                 THEN Base64(found[Len(found)].id_ats_interview)
                                 ELSE Null,
               event |-> <<PullEvent(Uuid(nextId), integrationId, linkedUserId)>>]

(***************************************************************************)
(* Callers of getInterviews.                                               *)
(***************************************************************************)
AtsConnections == {c \in connections : c.vertical = "ats"}

\* Rows the ats_interviews table may hold when the service starts.
InterviewUniverse ==
  { [id_ats_interview |-> "i1", id_connection |-> "k1", created_at |-> 2],
    [id_ats_interview |-> "i2", id_connection |-> "k1", created_at |-> 1],
    [id_ats_interview |-> "i3", id_connection |-> "k1", created_at |-> 1],
    [id_ats_interview |-> "i4", id_connection |-> "k2", created_at |-> 1] }

InterviewIds == {r.id_ats_interview : r \in InterviewUniverse}

\* Cursors a caller may pass: none, an interview id, a cursor as a previous
\* call returned it, an id of no interview.
CursorInputs ==
  {Null} \cup InterviewIds \cup {Base64("i1"), "i9"}

\* Buffer.from(c, 'base64').toString() for the cursors of the model.
Base64Decode(c) ==
  IF \E i \in InterviewIds : Base64(i) = c
    THEN CHOOSE i \in InterviewIds : Base64(i) = c
    ELSE "?"

\* One getInterviews call with arguments taken from a connection's metadata.
GetInterviewsCall ==
  /\ now < MaxCalls
  /\ \E c \in AtsConnections :
       \E scan \in ScanOrders(c.id_connection), limit \in 0..MaxLimit,
          with_remote_data \in BOOLEAN, cursor \in CursorInputs :
         LET out == getInterviews(scan, c.id_connection, c.provider_slug,
                                  c.id_linked_user, limit, with_remote_data, cursor)
         IN /\ page' = [seq |-> now + 1, connection_id |-> c.id_connection,
                        limit |-> limit, cursor |-> cursor, scan |-> scan,
                        error |-> out.error, data |-> out.data,
                        prev_cursor |-> out.prev_cursor,
                        next_cursor |-> out.next_cursor]
            /\ events' = events \o out.event
            /\ nextId' = nextId + Len(out.event)
  /\ now' = now + 1
  /\ UNCHANGED <<fs_groups, entity, value, remote_data, webhooks, saveVars,
                 ats_interviews, walk, syncVars, queueVars,
                 lastAdd, authVars, mapperVars, attachmentVars>>

InitInterviews ==
  /\ fs_groups = {}
  /\ entity = {}
  /\ value = {}
  /\ ats_interviews \in SUBSET InterviewUniverse
  /\ remote_data = {[id_remote_data |-> "rd-" \o r.id_ats_interview,
                     ressource_owner_id |-> r.id_ats_interview,
                     format |-> "json",
                     data |-> JsonStringify("raw-" \o r.id_ats_interview),
                     created_at |-> r.created_at] : r \in ats_interviews}
  /\ events = <<>>
  /\ webhooks = <<>>
  /\ nextId = 1
  /\ now = 0
  /\ call = NoCall
  /\ lastSave = NoSave
  /\ page = NoPage
  /\ walk = NoWalk
  /\ InitIdleSync
  /\ InitIdleRest

NextInterviews == GetInterviewsCall

SpecInterviews == InitInterviews /\ [][NextInterviews]_vars

\* A client pages through the interviews of a connection: the first call
\* passes no cursor.  decode tells whether the client passes each next_cursor
\* back as returned or base64-decodes it first.
WalkOutcome(w, out) ==
  [w EXCEPT !.status = IF out.error # Null THEN "failed"
                       ELSE IF out.next_cursor = Null THEN "done"
                       ELSE "running",
            !.next_cursor = out.next_cursor,
            !.pages = @ + 1,
            !.collected = @ \o out.data]

WalkStart ==
  /\ ~walk.active
  /\ \E c \in AtsConnections :
       \E scan \in ScanOrders(c.id_connection), limit \in 1..MaxLimit,
          decode \in BOOLEAN :
         LET out == getInterviews(scan, c.id_connection, c.provider_slug,
                                  c.id_linked_user, limit, FALSE, Null)
         IN /\ walk' = WalkOutcome([active |-> TRUE,
                                    connection |-> c,
                                    limit |-> limit, decode |-> decode,
                                    status |-> "running", next_cursor |-> Null,
                                    pages |-> 0, collected |-> <<>>], out)
            /\ events' = events \o out.event
            /\ nextId' = nextId + Len(out.event)
  /\ now' = now + 1
  /\ UNCHANGED <<fs_groups, entity, value, remote_data, webhooks, saveVars,
                 ats_interviews, page, syncVars, queueVars,
                 lastAdd, authVars, mapperVars, attachmentVars>>

WalkStep ==
  /\ walk.active
  /\ walk.status = "running"
  /\ walk.pages < MaxPages
  /\ \E scan \in ScanOrders(walk.connection.id_connection) :
       LET cursor == IF walk.decode THEN Base64Decode(walk.next_cursor)
                     ELSE walk.next_cursor
           out == getInterviews(scan, walk.connection.id_connection,
                                walk.connection.provider_slug,
                                walk.connection.id_linked_user, walk.limit,
                                FALSE, cursor)
       IN /\ walk' = WalkOutcome(walk, out)
          /\ events' = events \o out.event
          /\ nextId' = nextId + Len(out.event)
  /\ now' = now + 1
  /\ UNCHANGED <<fs_groups, entity, value, remote_data, webhooks, saveVars,
                 ats_interviews, page, syncVars, queueVars,
                 lastAdd, authVars, mapperVars, attachmentVars>>

NextPagination == WalkStart \/ WalkStep

SpecPagination == InitInterviews /\ [][NextPagination]_vars

(***************************************************************************)
(* Properties of getInterviews.                                            *)
(***************************************************************************)
InterviewsOf(connection_id) ==
  {r \in ats_interviews : r.id_connection = connection_id}

\* C3: a client that starts with no cursor and passes each returned
\* next_cursor as the cursor of the next call sees no call fail and, when
\* next_cursor comes back null, has received every interview of the
\* connection exactly once, in ascending created_at order.
C3_PagingReturnsEachInterviewOnce ==
  (walk.active /\ ~walk.decode) =>
     /\ walk.status # "failed"
     /\ walk.status = "done" =>
          /\ {x.id : x \in {walk.collected[k] : k \in 1..Len(walk.collected)}}
               = {r.id_ats_interview : r \in InterviewsOf(walk.connection.id_connection)}
          /\ Len(walk.collected)
               = Cardinality(InterviewsOf(walk.connection.id_connection))
          /\ \A a, b \in 1..Len(walk.collected) :
               a < b => walk.collected[a].created_at <= walk.collected[b].created_at

\* Rows of the call's scan from the cursor position onward.
FromCursor(p) == Len(p.scan) - CursorStart(p.scan, p.cursor) + 1

\* C4: a getInterviews call that returns gives at most `limit` interviews, all
\* of the given connection; next_cursor is non-null exactly when more than
\* `limit` interviews of the connection lie from the cursor position onward,
\* and it is then the encoded id of the first interview not returned;
\* prev_cursor is null exactly when no cursor was passed.
C4_PageShape ==
  (page.seq > 0 /\ page.error = Null) =>
     /\ Len(page.data) <= page.limit
     /\ \A k \in 1..Len(page.data) :
          \E r \in InterviewsOf(page.connection_id) :
            r.id_ats_interview = page.data[k].id
     /\ (page.next_cursor # Null) <=> (FromCursor(page) > page.limit)
     /\ page.next_cursor # Null =>
          LET first == page.scan[CursorStart(page.scan, page.cursor) + page.limit]
          IN /\ Base64Decode(page.next_cursor) = first.id_ats_interview
             /\ \A k \in 1..Len(page.data) : page.data[k].id # first.id_ats_interview
             /\ \A j \in CursorStart(page.scan, page.cursor)
                           ..(CursorStart(page.scan, page.cursor) + page.limit - 1) :
                  \E k \in 1..Len(page.data) :
                    page.data[k].id = page.scan[j].id_ats_interview
     /\ (page.prev_cursor = Null) <=> (page.cursor = Null)

\* C4 witness: a call with a cursor returned a full page and a next_cursor.
C4_Witness ==
  /\ page.seq > 0
  /\ page.error = Null
  /\ page.cursor # Null
  /\ page.limit >= 1
  /\ Len(page.data) = page.limit
  /\ page.next_cursor # Null

\* A step that is one direct getInterviews call.
IsGetInterviewsCall == page'.seq # page.seq

\* C5: a getInterviews call whose cursor is not the id of an interview of the
\* given connection throws ReferenceError 'The provided cursor does not
\* exist!', returns no data and creates no event.
C5_UnknownCursorThrows ==
  [][(IsGetInterviewsCall
        /\ page'.cursor # Null
        /\ \A r \in InterviewsOf(page'.connection_id) :
             r.id_ats_interview # page'.cursor) =>
       /\ page'.error = "ReferenceError: The provided cursor does not exist!"
       /\ page'.data = <<>>
       /\ page'.next_cursor = Null
       /\ events' = events
    ]_vars

\* C5 witness: a call failed on a cursor that is an interview of another
\* connection.
C5_Witness ==
  /\ page.seq > 0
  /\ page.error = "ReferenceError: The provided cursor does not exist!"
  /\ \E r \in ats_interviews :
       r.id_ats_interview = page.cursor /\ r.id_connection # page.connection_id

(***************************************************************************)
(* SyncService.scheduleSyncJob: the repeatable jobs of the Bull queue      *)
(* 'syncTasks'.  Bull keeps one repeatable job per key, and the key is     *)
(* made of the job's name and its repeat options.                          *)
(***************************************************************************)
MaxInits == 2

jobName == "filestorage-sync-groups"

RepeatableJob(name, cron) ==
  [name |-> name, cron |-> cron, key |-> name \o ":::" \o cron]

\* queue.removeRepeatableByKey(key)
RemoveRepeatableByKey(queue, key) == {j \in queue : j.key # key}

\* for (const job of jobs) if (job.name === jobName) removeRepeatableByKey(job.key)
RemoveJobsNamedNone(queue, name) == queue

RemoveJobsNamed(queue, name) ==
  {j \in queue : \A job \in queue : job.name = name => j.key # job.key}

\* queue.add(name, {}, { repeat: { cron } })
AddRepeatable(queue, name, cron) == queue \cup {RepeatableJob(name, cron)}

scheduleSyncJob(queue) ==
  AddRepeatable(RemoveJobsNamed(queue, jobName), jobName, "0 0 * * *")

\* The application starts (or restarts): onModuleInit awaits scheduleSyncJob.
OnModuleInit ==
  /\ inits < MaxInits
  /\ syncQueue' = scheduleSyncJob(syncQueue)
  /\ inits' = inits + 1
  /\ UNCHANGED <<fs_groups, entity, value, remote_data, events, webhooks, nextId,
                 now, saveVars, interviewVars, syncVars,
                 authVars, mapperVars, attachmentVars>>

\* Repeatable jobs that earlier deployments and the other sync services may
\* have left in the queue, under this job's name and under other names.
JobUniverse ==
  {RepeatableJob(n, c) :
     n \in {jobName, "ats-sync-attachments", "filestorage-sync-folders"},
     c \in {"0 0 * * *", "0 */8 * * *", "*/20 * * * *"}}

InitQueue ==
  /\ fs_groups = {}
  /\ entity = {}
  /\ value = {}
  /\ remote_data = {}
  /\ events = <<>>
  /\ webhooks = <<>>
  /\ nextId = 1
  /\ now = 0
  /\ call = NoCall
  /\ lastSave = NoSave
  /\ ats_interviews = {}
  /\ page = NoPage
  /\ walk = NoWalk
  /\ syncQueue \in SUBSET JobUniverse
  /\ inits = 0
  /\ run = NoRun
  /\ tasks = {}
  /\ lastRun = NoSyncCall
  /\ InitIdleRest

NextQueue == OnModuleInit

SpecQueue == InitQueue /\ [][NextQueue]_vars

JobsNamed(queue, name) == {j \in queue : j.name = name}

\* C7: every scheduleSyncJob leaves exactly one repeatable job named
\* 'filestorage-sync-groups' in the queue, whatever jobs earlier starts left
\* there, and leaves the repeatable jobs of every other name as they were.
C7_OneRepeatableSyncJob ==
  [][inits' # inits =>
       /\ Cardinality(JobsNamed(syncQueue', jobName)) = 1
       /\ syncQueue' \ JobsNamed(syncQueue', jobName)
            = syncQueue \ JobsNamed(syncQueue, jobName)]_vars

\* A restart found a stale job of the same name and jobs of other names.
C7_Witness ==
  /\ inits = MaxInits
  /\ JobsNamed(syncQueue, jobName) = {RepeatableJob(jobName, "0 0 * * *")}
  /\ Cardinality(syncQueue) > 2

(***************************************************************************)
(* SyncService.syncGroupsForLinkedUser.  The provider adapter, the unifier *)
(* and the webhook service are outside calls: the environment chooses what *)
(* the provider returns together with what unify makes of it (items), and  *)
(* which of the outside calls throws (fault).                              *)
(***************************************************************************)
FindConnectionAnyVertical(linkedUserId, integrationId) ==
  {c \in connections :
     c.id_linked_user = linkedUserId /\ c.provider_slug = integrationId}

\* prisma.connections.findFirst({ where: { id_linked_user, provider_slug,
\* vertical: 'filestorage' } }): the rows the where clause selects.
FindConnection(linkedUserId, integrationId) ==
  {c \in connections :
     /\ c.id_linked_user = linkedUserId
     /\ c.provider_slug = integrationId
     /\ c.vertical = "filestorage"}

GroupPulledEvent(id, integrationId, linkedUserId, t) ==
  [id_event |-> id, status |-> "success", type |-> "filestorage.group.pulled",
   method |-> "PULL", url |-> "/pull", provider |-> integrationId,
   direction |-> "0", timestamp |-> t, id_linked_user |-> linkedUserId]

\* webhook.handleWebhook(data, type, id_project, id_event)
WebhookCall(data, type, id_project, id_event) ==
  [data |-> data, type |-> type, id_project |-> id_project,
   id_event |-> id_event]

\* An awaited call that rejects ends the handler: the catch block rethrows.
PropagatesNever(error) == FALSE

Propagates(error) == error # Null

SyncOutcome(db, evs, whs, steps, error) ==
  [db |-> db, events |-> evs, webhooks |-> whs, steps |-> steps,
   error |-> error]

\* steps lists the outside calls and writes the run reached, in order.
syncGroupsForLinkedUser(db, evs, whs, integrationId, linkedUserId, id_project, items, fault, t) ==
  LET found == FindConnection(linkedUserId, integrationId)
  IN IF found = {}
       THEN SyncOutcome(db, evs, whs, <<>>, Null)
       ELSE
         LET connection == CHOOSE c \in found : TRUE
             fetchError == IF fault = "fetch" THEN "Error: fetch" ELSE Null
             sourceObject == [k \in 1..Len(items) |-> items[k].raw]
             unifyError == IF fault = "unify" THEN "Error: unify" ELSE Null
             unifiedObject == [k \in 1..Len(items) |-> items[k].group]
             saved == saveGroupsInDb(db, connection.id_connection, linkedUserId,
                                     unifiedObject, integrationId, sourceObject, t)
             event == GroupPulledEvent(Uuid(saved.db.nextId), integrationId,
                                       linkedUserId, t)
             afterEvent == [saved.db EXCEPT !.nextId = @ + 1]
             hook == WebhookCall(saved.results, "filestorage.group.pulled",
                                 id_project, event.id_event)
         IN IF Propagates(fetchError)
              THEN SyncOutcome(db, evs, whs, <<"fetch">>, fetchError)
            ELSE IF Propagates(unifyError)
              THEN SyncOutcome(db, evs, whs, <<"fetch", "unify">>, unifyError)
            ELSE IF Propagates(saved.error)
              THEN SyncOutcome(saved.db, evs, whs, <<"fetch", "unify", "save">>,
                               saved.error)
            ELSE IF fault = "webhook"
              THEN SyncOutcome(afterEvent, Append(evs, event), whs,
                               <<"fetch", "unify", "save", "event", "webhook">>,
                               "Error: webhook")
            ELSE SyncOutcome(afterEvent, Append(evs, event), Append(whs, hook),
                             <<"fetch", "unify", "save", "event", "webhook">>,
                             Null)

(***************************************************************************)
(* SyncService.syncGroups: the cron run walks users, their projects and    *)
(* the projects' linked users, and starts one callback per linked user     *)
(* without awaiting it.  A callback calls syncGroupsForLinkedUser for the  *)
(* providers in turn and ends at the first call that throws.               *)
(***************************************************************************)
users == {[id_user |-> "usr1"], [id_user |-> "usr2"]}

projects ==
  { [id_project |-> "p1", id_user |-> "usr1"],
    [id_project |-> "p2", id_user |-> "usr1"],
    [id_project |-> "p3", id_user |-> "usr2"] }

linked_users ==
  { [id_linked_user |-> "lu1", id_project |-> "p1"],
    [id_linked_user |-> "lu2", id_project |-> "p1"],
    [id_linked_user |-> "lu3", id_project |-> "p3"] }

\* The provider list imported from @panora/shared.
FILESTORAGE_PROVIDERS == <<"box", "dropbox">>

\* What a provider returns, each object with the group unify makes of it.
ProviderResponses ==
  LET good == [group |-> Group("g1", "eng", FALSE, NoMappings), raw |-> "rawA"]
      bad == [group |-> Group("", "eng", FALSE, NoMappings), raw |-> "rawB"]
  IN {<<>>, <<good>>, <<good, bad>>}

Faults == {"none", "fetch", "unify", "webhook"}

\* prisma.users.findUnique({ where: { id_user } }): the row, if there is one
FindUniqueUser(user_id) == {u \in users : u.id_user = user_id}

\* user_id ? [await prisma.users.findUnique(...)] : await prisma.users.findMany()
UsersOf(user_id) == IF Truthy(user_id) THEN FindUniqueUser(user_id) ELSE users

\* prisma.projects.findMany({ where: { id_user } }) over the users of the run
ProjectsOf(us) == {p \in projects : \E u \in us : p.id_user = u.id_user}

\* prisma.linked_users.findMany({ where: { id_project } })
LinkedUsersOfAny(id_project) == linked_users

LinkedUsersOf(id_project) ==
  {lu \in linked_users : lu.id_project = id_project}

\* The run has visited every project and every callback has ended.
RunFinished ==
  /\ run.started
  /\ run.todo = {}
  /\ \A task \in tasks : task.status # "running"

\* The cron fires (or syncGroups is called with a user id).  todo holds the
\* projects the loops have still to visit; reading a field of a user that
\* findUnique did not find throws.
SyncGroupsStart ==
  /\ ~run.started
  /\ \E user_id \in {Null, "usr2", "usr9"} :
       LET missing == Truthy(user_id) /\ FindUniqueUser(user_id) = {}
       IN run' = [started |-> TRUE, user_id |-> user_id,
                  todo |-> IF missing THEN {} ELSE ProjectsOf(UsersOf(user_id)),
                  error |-> IF missing THEN "TypeError" ELSE Null]
  /\ tasks' = {}
  /\ UNCHANGED <<fs_groups, entity, value, remote_data, events, webhooks, nextId,
                 now, saveVars, interviewVars, queueVars, lastRun,
                 authVars, mapperVars, attachmentVars>>

\* The loops reach a project: linkedUsers.map(async ...) starts a callback
\* for each of its linked users.
LaunchProject ==
  /\ run.started
  /\ \E project \in run.todo :
       /\ run' = [run EXCEPT !.todo = @ \ {project}]
       /\ tasks' = tasks \cup
            {[linkedUser |-> linkedUser, id_project |-> project.id_project,
              next |-> 1, status |-> "running", calls |-> <<>>] :
               linkedUser \in LinkedUsersOf(project.id_project)}
  /\ UNCHANGED <<fs_groups, entity, value, remote_data, events, webhooks, nextId,
                 now, saveVars, interviewVars, queueVars, lastRun,
                 authVars, mapperVars, attachmentVars>>

\* A callback makes its next call of syncGroupsForLinkedUser; calls keeps
\* the arguments of the callback's calls and whether each threw.  The clock
\* ticks with the calls that get past the connection check, and lastRun
\* keeps what the outside calls were made to answer (nothing when none was
\* made).
TaskCall ==
  \E task \in tasks, items \in ProviderResponses, fault \in Faults :
    /\ task.status = "running"
    /\ LET provider == FILESTORAGE_PROVIDERS[task.next]
           linkedUserId == task.linkedUser.id_linked_user
           out == syncGroupsForLinkedUser(Tables, events, webhooks, provider,
                                          linkedUserId, task.id_project,
                                          items, fault, now + 1)
           made == [task EXCEPT !.calls =
                      Append(@, [provider |-> provider,
                                 linkedUserId |-> linkedUserId,
                                 id_project |-> task.id_project,
                                 threw |-> out.error # Null])]
       IN /\ fs_groups' = out.db.fs_groups
          /\ entity' = out.db.entity
          /\ value' = out.db.value
          /\ remote_data' = out.db.remote_data
          /\ nextId' = out.db.nextId
          /\ events' = out.events
          /\ webhooks' = out.webhooks
          /\ lastRun' = [seq |-> lastRun.seq + 1, integrationId |-> provider,
                         linkedUserId |-> linkedUserId,
                         id_project |-> task.id_project,
                         items |-> IF out.steps = <<>> THEN <<>> ELSE items,
                         fault |-> IF out.steps = <<>> THEN "none" ELSE fault,
                         steps |-> out.steps, error |-> out.error]
          /\ tasks' = (tasks \ {task}) \cup
               { IF out.error # Null THEN [made EXCEPT !.status = "failed"]
                 ELSE IF task.next = Len(FILESTORAGE_PROVIDERS)
                   THEN [made EXCEPT !.status = "done"]
                 ELSE [made EXCEPT !.next = @ + 1] }
          /\ now' = IF out.steps = <<>> THEN now ELSE now + 1
    /\ UNCHANGED <<run, saveVars, interviewVars, queueVars,
                   authVars, mapperVars, attachmentVars>>

InitSync ==
  /\ fs_groups = {}
  /\ entity = {}
  /\ value = {}
  /\ remote_data = {}
  /\ events = <<>>
  /\ webhooks = <<>>
  /\ nextId = 1
  /\ now = 0
  /\ call = NoCall
  /\ lastSave = NoSave
  /\ ats_interviews = {}
  /\ page = NoPage
  /\ walk = NoWalk
  /\ InitIdleSync
  /\ InitIdleRest

NextSync == SyncGroupsStart \/ LaunchProject \/ TaskCall

SpecSync == InitSync /\ [][NextSync]_vars

(***************************************************************************)
(* Properties of the sync run.                                             *)
(***************************************************************************)
CallsMade == UNION {{<<task, k>> : k \in DOMAIN task.calls} : task \in tasks}

ArgsOf(made) ==
  LET c == made[1].calls[made[2]]
  IN [provider |-> c.provider, linkedUserId |-> c.linkedUserId,
      id_project |-> c.id_project]

\* (linked user of a project of a user, provider), with the project's id
ValidCombinations ==
  {[provider |-> FILESTORAGE_PROVIDERS[k], linkedUserId |-> lu.id_linked_user,
    id_project |-> lu.id_project] :
     lu \in {l \in linked_users :
               \E p \in projects, u \in users :
                 p.id_project = l.id_project /\ p.id_user = u.id_user},
     k \in DOMAIN FILESTORAGE_PROVIDERS}

CallCount(c) == Cardinality({made \in CallsMade : ArgsOf(made) = c})

\* C6 as stated: when a run of syncGroups without user_id has ended, every
\* (linked user, provider) combination was called exactly once with the linked
\* user's project id, and nothing else was called.
C6_EveryCombinationCalledOnce ==
  (RunFinished /\ run.user_id = Null) =>
     /\ \A c \in ValidCombinations : CallCount(c) = 1
     /\ \A made \in CallsMade : ArgsOf(made) \in ValidCombinations

\* C6: a run of syncGroups without user_id calls only valid combinations
\* with the linked user's project id, each at most once; when the run has
\* ended, the providers called for a linked user are those of
\* FILESTORAGE_PROVIDERS, in order, up to and including the first whose call
\* threw (all of them if none threw).
C6_CallsUpToFirstThrow ==
  (run.started /\ run.user_id = Null) =>
     /\ \A made \in CallsMade : ArgsOf(made) \in ValidCombinations
     /\ \A c \in ValidCombinations : CallCount(c) <= 1
     /\ RunFinished =>
          \A c \in ValidCombinations :
            \E task \in tasks :
              /\ task.linkedUser.id_linked_user = c.linkedUserId
              /\ task.id_project = c.id_project
              /\ Len(task.calls) >= 1
              /\ \A k \in DOMAIN task.calls :
                   /\ task.calls[k].provider = FILESTORAGE_PROVIDERS[k]
                   /\ task.calls[k].threw => k = Len(task.calls)
              /\ \/ Len(task.calls) = Len(FILESTORAGE_PROVIDERS)
                 \/ task.calls[Len(task.calls)].threw

\* A finished run in which one linked user's first provider threw and another
\* linked user went through all providers.
C6_Witness ==
  /\ RunFinished
  /\ run.user_id = Null
  /\ \E task \in tasks :
       task.status = "failed" /\ Len(task.calls) < Len(FILESTORAGE_PROVIDERS)
  /\ \E task \in tasks :
       task.status = "done" /\ Len(task.calls) = Len(FILESTORAGE_PROVIDERS)

IsSyncCall == lastRun'.seq # lastRun.seq

HasFilestorageConnection(linkedUserId, integrationId) ==
  \E c \in connections :
    /\ c.id_linked_user = linkedUserId
    /\ c.provider_slug = integrationId
    /\ c.vertical = "filestorage"

\* C8: a call of syncGroupsForLinkedUser for a linked user without a
\* 'filestorage' connection of the given provider returns without calling the
\* provider adapter and leaves fs_groups, entity, value, remote_data, the
\* events and the webhooks as they were.
C8_NoConnectionNoEffect ==
  [][(IsSyncCall /\ ~HasFilestorageConnection(lastRun'.linkedUserId,
                                              lastRun'.integrationId)) =>
       /\ lastRun'.steps = <<>>
       /\ lastRun'.error = Null
       /\ UNCHANGED <<fs_groups, entity, value, remote_data, events,
                      webhooks>>]_vars

\* The latest call was for lu3 and box, whose only connection is a ticketing
\* one, after another linked user's call had stored groups.
C8_Witness ==
  /\ lastRun.seq > 0
  /\ lastRun.linkedUserId = "lu3"
  /\ lastRun.integrationId = "box"
  /\ lastRun.steps = <<>>
  /\ fs_groups # {}
  /\ Len(events) > 0

StepOrder == <<"fetch", "unify", "save", "event", "webhook">>

IsPrefix(s, t) == Len(s) <= Len(t) /\ \A k \in DOMAIN s : s[k] = t[k]

\* A step before the event creation throws: the fetch, the unify, or
\* saveGroupsInDb on a group without remote_id.
EarlierStepThrows(r) ==
  \/ r.fault \in {"fetch", "unify"}
  \/ \E k \in DOMAIN r.items : ~Truthy(r.items[k].group.remote_id)

\* C9: a call of syncGroupsForLinkedUser with a connection goes through
\* fetch, unify, saveGroupsInDb, event creation and webhook in this order;
\* when it returns normally it has added exactly one 'filestorage.group.pulled'
\* event with status 'success' and exactly one webhook, which carries that
\* event's id and the groups saveGroupsInDb stored; when a step before the
\* event creation throws it adds no event and no webhook.
C9_EventThenWebhook ==
  [][(IsSyncCall /\ HasFilestorageConnection(lastRun'.linkedUserId,
                                             lastRun'.integrationId)) =>
       LET r == lastRun'
       IN /\ r.steps # <<>>
          /\ IsPrefix(r.steps, StepOrder)
          /\ r.error = Null =>
               /\ r.steps = StepOrder
               /\ Len(events') = Len(events) + 1
               /\ SubSeq(events', 1, Len(events)) = events
               /\ Len(webhooks') = Len(webhooks) + 1
               /\ SubSeq(webhooks', 1, Len(webhooks)) = webhooks
               /\ LET event == events'[Len(events')]
                      hook == webhooks'[Len(webhooks')]
                  IN /\ event.type = "filestorage.group.pulled"
                     /\ event.status = "success"
                     /\ \A k \in 1..Len(events) :
                          events[k].id_event # event.id_event
                     /\ hook.id_event = event.id_event
                     /\ hook.type = "filestorage.group.pulled"
                     /\ hook.id_project = r.id_project
                     /\ Len(hook.data) = Len(r.items)
                     /\ \A k \in DOMAIN hook.data :
                          /\ hook.data[k].remote_id = r.items[k].group.remote_id
                          /\ \E g \in fs_groups' :
                               /\ g.id_fs_group = hook.data[k].id_fs_group
                               /\ g.remote_id = hook.data[k].remote_id
          /\ EarlierStepThrows(r) =>
               /\ r.error # Null
               /\ events' = events
               /\ webhooks' = webhooks]_vars

\* A call returned normally after saving a group, and an earlier call of the
\* run threw in saveGroupsInDb.
C9_Witness ==
  /\ lastRun.seq > 0
  /\ lastRun.error = Null
  /\ lastRun.steps = StepOrder
  /\ Len(lastRun.items) = 1
  /\ Len(webhooks) = 1
  /\ Len(webhooks[1].data) = 1
  /\ \E task \in tasks :
       /\ task.status = "failed"
       /\ task.linkedUser.id_linked_user # lastRun.linkedUserId

(***************************************************************************)
(* AuthService: password recovery.  Each call is one step; the clock is    *)
(* Date.now() in milliseconds and moves by a moment or by an hour.         *)
(* lastAuth.history collects the tokens resetPassword has accepted.        *)
(***************************************************************************)
resetTokenTtl == 3600000

MaxClock == 2

\* bcrypt.hash(password, 10), and bcrypt.compare(password, hash)
BcryptHash(password) == "bcrypt:" \o password

BcryptCompareAny(password, hash) == TRUE

BcryptCompare(password, hash) == hash = BcryptHash(password)

\* crypto.randomBytes(32).toString('hex'): a value no earlier call produced
RandomToken(n) == "tok" \o ToString(n)

UserRow(id_user, email, password) ==
  [id_user |-> id_user, email |-> email, password_hash |-> BcryptHash(password),
   reset_token |-> Null, reset_token_expiry |-> <<>>]

\* prisma.users.findFirst({ where: { email } }): the rows the clause selects
FindUsersByEmail(rows, email) == {u \in rows : u.email = email}

FindByResetTokenAnyExpiry(rows, token, t) ==
  {u \in rows : u.reset_token = token}

\* prisma.users.findFirst({ where: { reset_token, reset_token_expiry: { gt } } });
\* a null expiry (the empty sequence) is greater than nothing.
FindByResetToken(rows, token, t) ==
  {u \in rows :
     /\ u.reset_token = token
     /\ Len(u.reset_token_expiry) = 1
     /\ u.reset_token_expiry[1] > t}

\* The data of the users.update in resetPassword.
ApplyResetKeepToken(u, hashedPassword) ==
  [u EXCEPT !.password_hash = hashedPassword]

ApplyReset(u, hashedPassword) ==
  [u EXCEPT !.password_hash = hashedPassword, !.reset_token = Null,
            !.reset_token_expiry = <<>>]

\* prisma.users.update({ where: { id_user }, data }) with the row's new value
UpdateUser(rows, id_user, row) ==
  {IF u.id_user = id_user THEN row ELSE u : u \in rows}

AuthOutcome(op, fields, error, history) ==
  [seq |-> 1 - lastAuth.seq, op |-> op, args |-> fields, error |-> error,
   history |-> history]

Emails == {"a@x.io", "b@x.io", "nobody@x.io"}

Passwords == {"old", "new"}

InitiatePasswordRecovery ==
  /\ nextId <= MaxCalls
  /\ \E email \in Emails :
       LET found == FindUsersByEmail(auth_users, email)
       IN IF found = {}
            THEN /\ lastAuth' = AuthOutcome("initiatePasswordRecovery",
                                            [email |-> email],
                                            "NotFoundException", lastAuth.history)
                 /\ UNCHANGED <<auth_users, nextId>>
            ELSE \E user \in found :
                   /\ auth_users' =
                        UpdateUser(auth_users, user.id_user,
                                   [user EXCEPT
                                      !.reset_token = RandomToken(nextId),
                                      !.reset_token_expiry = <<now + resetTokenTtl>>])
                   /\ nextId' = nextId + 1
                   /\ lastAuth' = AuthOutcome("initiatePasswordRecovery",
                                              [email |-> email], Null,
                                              lastAuth.history)
  /\ UNCHANGED <<fs_groups, entity, value, remote_data, events, webhooks, now,
                 saveVars, interviewVars, syncVars, queueVars, auth_projects,
                 api_keys, registers, mapperVars, attachmentVars>>

ResetPassword ==
  /\ \E token \in {RandomToken(n) : n \in 1..MaxCalls} \cup {"bogus"},
        newPassword \in Passwords :
       LET found == FindByResetToken(auth_users, token, now)
           fields == [token |-> token, newPassword |-> newPassword]
       IN IF found = {}
            THEN /\ lastAuth' = AuthOutcome("resetPassword", fields,
                                            "BadRequestException: Invalid or expired reset token",
                                            lastAuth.history)
                 /\ UNCHANGED auth_users
            ELSE \E user \in found :
                   /\ auth_users' =
                        UpdateUser(auth_users, user.id_user,
                                   ApplyReset(user, BcryptHash(newPassword)))
                   /\ lastAuth' = AuthOutcome("resetPassword", fields, Null,
                                              lastAuth.history \cup {token})
  /\ UNCHANGED <<fs_groups, entity, value, remote_data, events, webhooks, nextId,
                 now, saveVars, interviewVars, syncVars, queueVars,
                 auth_projects, api_keys, registers, mapperVars, attachmentVars>>

\* Time passes: a millisecond, or the lifetime of a reset token.
ClockTick ==
  /\ \E d \in {1, resetTokenTtl} :
       /\ d = 1 => now % resetTokenTtl < MaxClock
       /\ now + d <= MaxClock * resetTokenTtl + MaxClock
       /\ now' = now + d
  /\ UNCHANGED <<fs_groups, entity, value, remote_data, events, webhooks, nextId,
                 saveVars, interviewVars, syncVars, queueVars, authVars,
                 mapperVars, attachmentVars>>

InitReset ==
  /\ InitIdleCore
  /\ auth_users = {UserRow("usr1", "a@x.io", "old"), UserRow("usr2", "b@x.io", "old")}
  /\ auth_projects = {}
  /\ api_keys = {}
  /\ registers = {}
  /\ lastAuth = NoAuth
  /\ lastAdd = NoAdd
  /\ ticket = NoTicket
  /\ ats_candidate_attachments = {}
  /\ savers = {}

NextReset == InitiatePasswordRecovery \/ ResetPassword \/ ClockTick

SpecReset == InitReset /\ [][NextReset]_vars

IsAuthStep(op) == lastAuth'.seq # lastAuth.seq /\ lastAuth'.op = op

\* C12: a resetPassword that succeeds leaves the token's user with
\* reset_token and reset_token_expiry null, and a resetPassword with a token
\* that an earlier resetPassword accepted throws BadRequestException
\* 'Invalid or expired reset token' and changes no password_hash.
C12_ResetTokenIsSingleUse ==
  [][IsAuthStep("resetPassword") =>
       /\ lastAuth'.error = Null =>
            \A u \in auth_users :
              u.reset_token = lastAuth'.args.token =>
                \A v \in auth_users' :
                  v.id_user = u.id_user =>
                    v.reset_token = Null /\ v.reset_token_expiry = <<>>
       /\ lastAuth'.args.token \in lastAuth.history =>
            /\ lastAuth'.error = "BadRequestException: Invalid or expired reset token"
            /\ \A u \in auth_users :
                 \E v \in auth_users' :
                   v.id_user = u.id_user /\ v.password_hash = u.password_hash
    ]_vars

\* A token that was accepted has just been refused, well within its hour.
C12_Witness ==
  /\ lastAuth.op = "resetPassword"
  /\ lastAuth.error # Null
  /\ lastAuth.args.token \in lastAuth.history
  /\ now < resetTokenTtl

\* C13: resetPassword succeeds exactly when some user's stored reset_token is
\* the given token and that user's reset_token_expiry is later than now; it
\* then changes that user's row only; otherwise it throws
\* BadRequestException and changes no row.  initiatePasswordRecovery sets the
\* expiry one hour after the time of the call.
C13_ResetNeedsValidToken ==
  [][/\ IsAuthStep("resetPassword") =>
          LET valid == {u \in auth_users :
                          /\ u.reset_token = lastAuth'.args.token
                          /\ u.reset_token_expiry # <<>>
                          /\ u.reset_token_expiry[1] > now}
          IN IF valid = {}
               THEN /\ lastAuth'.error = "BadRequestException: Invalid or expired reset token"
                    /\ auth_users' = auth_users
               ELSE /\ lastAuth'.error = Null
                    /\ \E u \in valid :
                         /\ auth_users' \ auth_users \subseteq
                              {[u EXCEPT
                                  !.password_hash = BcryptHash(lastAuth'.args.newPassword),
                                  !.reset_token = Null,
                                  !.reset_token_expiry = <<>>]}
                         /\ auth_users \ auth_users' = {u}
     /\ (IsAuthStep("initiatePasswordRecovery") /\ lastAuth'.error = Null) =>
          \E v \in auth_users' \ auth_users :
            v.reset_token_expiry = <<now + 3600000>>
    ]_vars

\* A token still stored for a user has been refused because its hour is over.
C13_Witness ==
  /\ lastAuth.op = "resetPassword"
  /\ lastAuth.error # Null
  /\ \E u \in auth_users :
       /\ u.reset_token = lastAuth.args.token
       /\ u.reset_token_expiry # <<>>
       /\ u.reset_token_expiry[1] <= now

(***************************************************************************)
(* AuthService: API keys.  A key is a JWT signed with JWT_SECRET for one   *)
(* year and stored as it is in api_keys.api_key_hash.  The clock counts    *)
(* seconds here, as the JWT's iat and exp do.  lastAuth.history collects   *)
(* the keys generateApiKeyForUser has returned.                            *)
(***************************************************************************)
apiKeyTtl == 31557600

JWT_SECRET == "secret"

\* jwtService.sign(payload, { secret, expiresIn }) at time iat
JwtSign(payload, secret, iat, expiresIn) ==
  [payload |-> payload, secret |-> secret, iat |-> iat,
   exp |-> iat + expiresIn]

JwtVerifyIgnoreExpiry(token, secret, t) == token.secret = secret

\* jwtService.verify(token, { secret }) at time t: whether it returns
JwtVerify(token, secret, t) == token.secret = secret /\ t < token.exp

FindApiKeyAny(rows, apiKey) == rows

\* prisma.api_keys.findUnique({ where: { api_key_hash } })
FindUniqueApiKey(rows, apiKey) == {k \in rows : k.api_key_hash = apiKey}

GenerateApiKeyForUser ==
  /\ nextId <= MaxCalls
  /\ \E userId \in {"usr1", "usr9"}, projectId \in {"p1", "p9"} :
       LET fields == [userId |-> userId, projectId |-> projectId]
           access_token == JwtSign([sub |-> userId, project_id |-> projectId],
                                   JWT_SECRET, now, apiKeyTtl)
           new_api_key == [id_api_key |-> Uuid(nextId),
                           api_key_hash |-> access_token, name |-> "key",
                           id_project |-> projectId, id_user |-> userId]
           error ==
             IF \A pr \in auth_projects : pr.id_project # projectId
               THEN "ReferenceError: project undefined"
             ELSE IF \A u \in auth_users : u.id_user # userId
               THEN "ReferenceError: user undefined"
             ELSE IF FindUniqueApiKey(api_keys, access_token) # {}
               THEN "PrismaClientKnownRequestError: unique constraint"
             ELSE Null
       IN IF error # Null
            THEN /\ lastAuth' = AuthOutcome("generateApiKeyForUser", fields,
                                            error, lastAuth.history)
                 /\ UNCHANGED <<api_keys, nextId>>
            ELSE /\ api_keys' = api_keys \cup {new_api_key}
                 /\ nextId' = nextId + 1
                 /\ lastAuth' = AuthOutcome("generateApiKeyForUser", fields, Null,
                                            lastAuth.history \cup {access_token})
  /\ UNCHANGED <<fs_groups, entity, value, remote_data, events, webhooks, now,
                 saveVars, interviewVars, syncVars, queueVars, auth_users,
                 auth_projects, registers, mapperVars, attachmentVars>>

\* prisma.api_keys.delete({ where: { id_api_key } }) throws when no row has the id
DeleteApiKey ==
  /\ \E apiKeyId \in {Uuid(n) : n \in 1..MaxCalls} :
       LET found == {k \in api_keys : k.id_api_key = apiKeyId}
       IN /\ api_keys' = api_keys \ found
          /\ lastAuth' = AuthOutcome("deleteApiKey", [apiKeyId |-> apiKeyId],
                                     IF found = {}
                                       THEN "PrismaClientKnownRequestError: not found"
                                       ELSE Null,
                                     lastAuth.history)
  /\ UNCHANGED <<fs_groups, entity, value, remote_data, events, webhooks, nextId,
                 now, saveVars, interviewVars, syncVars, queueVars, auth_users,
                 auth_projects, registers, mapperVars, attachmentVars>>

\* The keys callers present: keys that were returned, and the same with a
\* signature made with another secret.
PresentedKeys ==
  lastAuth.history \cup {[k EXCEPT !.secret = "forged"] : k \in lastAuth.history}

ValidateApiKey ==
  /\ \E apiKey \in PresentedKeys :
       LET saved == FindUniqueApiKey(api_keys, apiKey)
           errors ==
             IF ~JwtVerify(apiKey, JWT_SECRET, now)
               THEN {"JsonWebTokenError"}
             ELSE IF saved = {}
               THEN {"ReferenceError: Api Key undefined"}
             ELSE {IF apiKey.payload.project_id # saved_api_key.id_project
                     THEN "ReferenceError: projectId mismatch"
                   ELSE IF apiKey.payload.sub # saved_api_key.id_user
                     THEN "ReferenceError: userId mismatch"
                   ELSE Null : saved_api_key \in saved}
       IN \E error \in errors :
            lastAuth' = AuthOutcome("validateApiKey",
                                    [apiKey |-> apiKey,
                                     returned |-> IF error = Null THEN "true"
                                                  ELSE "nothing"],
                                    error, lastAuth.history)
  /\ UNCHANGED <<fs_groups, entity, value, remote_data, events, webhooks, nextId,
                 now, saveVars, interviewVars, syncVars, queueVars, auth_users,
                 auth_projects, api_keys, registers, mapperVars, attachmentVars>>

\* Time passes: a second, or the lifetime of an API key.
ClockTickSeconds ==
  /\ \E d \in {1, apiKeyTtl} :
       /\ d = 1 => now % apiKeyTtl < MaxClock
       /\ now + d <= MaxClock * apiKeyTtl + MaxClock
       /\ now' = now + d
  /\ UNCHANGED <<fs_groups, entity, value, remote_data, events, webhooks, nextId,
                 saveVars, interviewVars, syncVars, queueVars, authVars,
                 mapperVars, attachmentVars>>

InitApiKeys ==
  /\ InitIdleCore
  /\ auth_users = {UserRow("usr1", "a@x.io", "old"), UserRow("usr2", "b@x.io", "old")}
  /\ auth_projects = {[id_project |-> "p1", id_user |-> "usr1"],
                      [id_project |-> "p2", id_user |-> "usr2"]}
  /\ api_keys = {}
  /\ registers = {}
  /\ lastAuth = NoAuth
  /\ lastAdd = NoAdd
  /\ ticket = NoTicket
  /\ ats_candidate_attachments = {}
  /\ savers = {}

NextApiKeys ==
  GenerateApiKeyForUser \/ DeleteApiKey \/ ValidateApiKey \/ ClockTickSeconds

SpecApiKeys == InitApiKeys /\ [][NextApiKeys]_vars

\* C14: validateApiKey returns true exactly when the key's JWT verifies, a
\* row of api_keys stores the key, and the JWT's project_id and sub are that
\* row's id_project and id_user; otherwise it throws; it returns nothing
\* but true.
C14_ValidateApiKeyChecks ==
  [][IsAuthStep("validateApiKey") =>
       LET key == lastAuth'.args.apiKey
           good == /\ key.secret = "secret"
                   /\ now < key.exp
                   /\ \E row \in api_keys :
                        /\ row.api_key_hash = key
                        /\ row.id_project = key.payload.project_id
                        /\ row.id_user = key.payload.sub
       IN /\ lastAuth'.args.returned = "true" <=> good
          /\ lastAuth'.args.returned # "true" => lastAuth'.error # Null
          /\ lastAuth'.args.returned \in {"true", "nothing"}
    ]_vars

\* A well-signed, unexpired key whose row was deleted has been refused while
\* another key of the same user and project is stored.
C14_Witness ==
  /\ lastAuth.op = "validateApiKey"
  /\ lastAuth.error = "ReferenceError: Api Key undefined"
  /\ \E row \in api_keys :
       /\ row.id_project = lastAuth.args.apiKey.payload.project_id
       /\ row.id_user = lastAuth.args.apiKey.payload.sub

\* C15 as stated: a key generateApiKeyForUser returned is accepted whenever
\* its row is stored and refused when it is not; generateApiKeyForUser with a
\* missing project or user throws ReferenceError and stores nothing.
C15_KeyValidUntilDeleted ==
  [][/\ (IsAuthStep("validateApiKey") /\ lastAuth'.args.apiKey \in lastAuth.history) =>
          IF \E row \in api_keys : row.api_key_hash = lastAuth'.args.apiKey
            THEN lastAuth'.error = Null
            ELSE lastAuth'.error # Null
     /\ IsAuthStep("generateApiKeyForUser") =>
          ((\/ \A pr \in auth_projects : pr.id_project # lastAuth'.args.projectId
            \/ \A u \in auth_users : u.id_user # lastAuth'.args.userId) =>
             /\ lastAuth'.error \in {"ReferenceError: project undefined",
                                     "ReferenceError: user undefined"}
             /\ api_keys' = api_keys)
    ]_vars

\* C15: a key generateApiKeyForUser returned is accepted whenever its row is
\* stored and less than a year has passed since it was issued, and refused
\* otherwise; generateApiKeyForUser with a missing project or user throws
\* ReferenceError and stores nothing.
C15_KeyValidUntilDeletedOrExpired ==
  [][/\ (IsAuthStep("validateApiKey") /\ lastAuth'.args.apiKey \in lastAuth.history) =>
          IF /\ \E row \in api_keys : row.api_key_hash = lastAuth'.args.apiKey
             /\ now < lastAuth'.args.apiKey.iat + 31557600
            THEN lastAuth'.error = Null
            ELSE lastAuth'.error # Null
     /\ IsAuthStep("generateApiKeyForUser") =>
          ((\/ \A pr \in auth_projects : pr.id_project # lastAuth'.args.projectId
            \/ \A u \in auth_users : u.id_user # lastAuth'.args.userId) =>
             /\ lastAuth'.error \in {"ReferenceError: project undefined",
                                     "ReferenceError: user undefined"}
             /\ api_keys' = api_keys)
    ]_vars

\* A returned key whose row is still stored has been refused a year later.
C15_Witness ==
  /\ lastAuth.op = "validateApiKey"
  /\ lastAuth.error = "JsonWebTokenError"
  /\ lastAuth.args.apiKey \in lastAuth.history
  /\ \E row \in api_keys : row.api_key_hash = lastAuth.args.apiKey

(***************************************************************************)
(* AuthService: register and login.  register reads (findFirst), then      *)
(* createUser writes the users row and then the project; other calls run   *)
(* between these steps.  users.email carries no unique constraint.         *)
(***************************************************************************)
\* register(user) up to its findFirst: the call throws ConflictException or
\* goes on to createUser.
RegisterFind ==
  /\ \E caller \in 1..MaxCalls, email \in {"a@x.io", "b@x.io"} :
       /\ \A r \in registers : r.caller # caller
       /\ LET foundUser == FindUsersByEmail(auth_users, email)
              conflict == foundUser # {}
          IN /\ registers' = registers \cup
                  {[caller |-> caller, email |-> email, password |-> "new",
                    pc |-> IF conflict THEN "thrown" ELSE "createUser",
                    id_user |-> Null]}
             /\ lastAuth' = AuthOutcome("register",
                                        [caller |-> caller, email |-> email],
                                        IF conflict THEN "ConflictException" ELSE Null,
                                        lastAuth.history)
  /\ UNCHANGED <<fs_groups, entity, value, remote_data, events, webhooks, nextId,
                 now, saveVars, interviewVars, syncVars, queueVars, auth_users,
                 auth_projects, api_keys, mapperVars, attachmentVars>>

\* createUser: bcrypt.hash and prisma.users.create
RegisterCreateUser ==
  /\ \E r \in registers :
       /\ r.pc = "createUser"
       /\ auth_users' = auth_users \cup {UserRow(Uuid(nextId), r.email, r.password)}
       /\ registers' = (registers \ {r}) \cup
            {[r EXCEPT !.pc = "createProject", !.id_user = Uuid(nextId)]}
       /\ lastAuth' = AuthOutcome("createUser", [caller |-> r.caller], Null,
                                  lastAuth.history)
  /\ nextId' = nextId + 1
  /\ UNCHANGED <<fs_groups, entity, value, remote_data, events, webhooks, now,
                 saveVars, interviewVars, syncVars, queueVars, auth_projects,
                 api_keys, mapperVars, attachmentVars>>

\* createUser: projectService.createProject({ name: 'My Project', id_user })
RegisterCreateProject ==
  /\ \E r \in registers :
       /\ r.pc = "createProject"
       /\ auth_projects' = auth_projects \cup
            {[id_project |-> Uuid(nextId), id_user |-> r.id_user]}
       /\ registers' = (registers \ {r}) \cup {[r EXCEPT !.pc = "returned"]}
       /\ lastAuth' = AuthOutcome("createProject", [caller |-> r.caller], Null,
                                  lastAuth.history)
  /\ nextId' = nextId + 1
  /\ UNCHANGED <<fs_groups, entity, value, remote_data, events, webhooks, now,
                 saveVars, interviewVars, syncVars, queueVars, auth_users,
                 api_keys, mapperVars, attachmentVars>>

\* login(user): the token is described by its payload.
Login ==
  /\ \E email \in Emails, password \in Passwords :
       LET found == FindUsersByEmail(auth_users, email)
           outcomes ==
             IF found = {}
               THEN {[error |-> "ReferenceError: User undefined!", payload |-> Null]}
             ELSE UNION {
               LET owned == {pr \in auth_projects : pr.id_user = foundUser.id_user}
               IN IF owned = {}
                    THEN {[error |-> "ReferenceError: Project undefined!",
                           payload |-> Null]}
                  ELSE IF ~BcryptCompare(password, foundUser.password_hash)
                    THEN {[error |-> "ReferenceError: Bcrypt Invalid credentials",
                           payload |-> Null]}
                  ELSE {[error |-> Null,
                         payload |-> [email |-> foundUser.email,
                                      sub |-> foundUser.id_user,
                                      id_project |-> project.id_project]] :
                          project \in owned}
               : foundUser \in found}
       IN \E out \in outcomes :
            lastAuth' = AuthOutcome("login",
                                    [email |-> email, password |-> password,
                                     access_token |-> out.payload],
                                    out.error, lastAuth.history)
  /\ UNCHANGED <<fs_groups, entity, value, remote_data, events, webhooks, nextId,
                 now, saveVars, interviewVars, syncVars, queueVars, auth_users,
                 auth_projects, api_keys, registers, mapperVars, attachmentVars>>

InitAccounts ==
  /\ InitIdleCore
  /\ auth_users = {UserRow("usr1", "a@x.io", "old")}
  /\ auth_projects = {[id_project |-> "p1", id_user |-> "usr1"]}
  /\ api_keys = {}
  /\ registers = {}
  /\ lastAuth = NoAuth
  /\ lastAdd = NoAdd
  /\ ticket = NoTicket
  /\ ats_candidate_attachments = {}
  /\ savers = {}

NextAccounts ==
  RegisterFind \/ RegisterCreateUser \/ RegisterCreateProject \/ Login

SpecAccounts == InitAccounts /\ [][NextAccounts]_vars

\* C16: login returns a token only if some user has the given email, owns a
\* project and has a password hash the given password matches; the token's
\* sub is that user's id and its id_project the id of a project of that
\* user; every other login throws a ReferenceError and returns no token.
C16_LoginNeedsUserProjectPassword ==
  [][IsAuthStep("login") =>
       LET a == lastAuth'.args
           entitled == {u \in auth_users :
                          /\ u.email = a.email
                          /\ u.password_hash = "bcrypt:" \o a.password
                          /\ \E pr \in auth_projects : pr.id_user = u.id_user}
       IN IF lastAuth'.error = Null
            THEN \E u \in entitled :
                   /\ a.access_token.sub = u.id_user
                   /\ \E pr \in auth_projects :
                        /\ pr.id_user = u.id_user
                        /\ pr.id_project = a.access_token.id_project
            ELSE /\ a.access_token = Null
                 /\ lastAuth'.error \in {"ReferenceError: User undefined!",
                                         "ReferenceError: Project undefined!",
                                         "ReferenceError: Bcrypt Invalid credentials"}
       ]_vars

\* A user that register created, with its project, has logged in.
C16_Witness ==
  /\ lastAuth.op = "login"
  /\ lastAuth.error = Null
  /\ lastAuth.args.email = "b@x.io"
  /\ lastAuth.args.access_token.sub # "usr1"

\* C17 (second half): no two rows of users have the same email.
C17_NoTwoUsersShareAnEmail ==
  \A u, v \in auth_users : u.email = v.email => u.id_user = v.id_user

\* C17 (first half): a register whose email belongs to a user when register
\* looks it up throws ConflictException and creates no user and no project.
C17_RegisterExistingEmailThrows ==
  [][IsAuthStep("register") =>
       ((\E u \in auth_users : u.email = lastAuth'.args.email) =>
          /\ lastAuth'.error = "ConflictException"
          /\ auth_users' = auth_users
          /\ auth_projects' = auth_projects
          /\ \A r \in registers' :
               r.caller = lastAuth'.args.caller => r.pc = "thrown")]_vars

(***************************************************************************)
(* InterviewService.addInterview and getInterview                          *)
(***************************************************************************)
\* if (linkedUserId && integrationId) in getInterview
PullGuardAlways(linkedUserId, integrationId) == TRUE

PullGuard(linkedUserId, integrationId) ==
  Truthy(linkedUserId) /\ Truthy(integrationId)

InterviewPullEvent(id, integrationId, linkedUserId, t) ==
  [id_event |-> id, status |-> "success", type |-> "ats.interview.pull",
   method |-> "GET", url |-> "/ats/interview", provider |-> integrationId,
   direction |-> "0", timestamp |-> t, id_linked_user |-> linkedUserId]

InterviewCreatedEvent(id, status_resp, integrationId, linkedUserId, t) ==
  [id_event |-> id, status |-> status_resp, type |-> "ats.interview.created",
   method |-> "POST", url |-> "/ats/interviews", provider |-> integrationId,
   direction |-> "0", timestamp |-> t, id_linked_user |-> linkedUserId]

\* getInterview on the tables db and the ats_interviews rows `interviews`.
\* error is what the call throws (Null when it returns), res the unified
\* interview, event the events row it creates (zero or one).  An argument
\* passed as undefined is Null.
getInterview(db, interviews, id_ats_interview, linkedUserId, integrationId, with_remote_data, t) ==
  LET found == {r \in interviews : r.id_ats_interview = id_ats_interview}
      resp == {r \in db.remote_data : r.ressource_owner_id = id_ats_interview}
      values == SetToSeq({v \in db.value :
                   \E e \in db.entity : /\ e.id_entity = v.id_entity
                                        /\ e.ressource_owner_id = id_ats_interview})
  IN IF found = {} \/ (with_remote_data /\ resp = {})
       THEN [error |-> "TypeError", res |-> Null, event |-> <<>>]
       ELSE LET interview == CHOOSE r \in found : TRUE
            IN [error |-> Null,
                res |-> [id |-> interview.id_ats_interview,
                         status |-> interview.status,
                         application_id |-> interview.id_ats_application,
                         job_interview_stage_id |->
                           interview.id_ats_job_interview_stage,
                         organized_by |-> interview.organized_by,
                         interviewers |-> interview.interviewers,
                         location |-> interview.location,
                         remote_id |-> interview.remote_id,
                         created_at |-> interview.created_at,
                         modified_at |-> interview.modified_at,
                         field_mappings |->
                           ArrayMappings(FieldMappingsMap(values, 1, <<>>)),
                         remote_data |->
                           IF with_remote_data
                             THEN JsonParse((CHOOSE r \in resp : TRUE).data)
                             ELSE Null],
                event |-> IF PullGuard(linkedUserId, integrationId)
                            THEN <<InterviewPullEvent(Uuid(db.nextId), integrationId,
                                                      linkedUserId, t)>>
                            ELSE <<>>]

\* The existingInterview branch and the else branch of addInterview.  Both
\* write the columns application_id and job_interview_stage_id; the columns
\* getInterview reads, id_ats_application and id_ats_job_interview_stage, are
\* in neither data object and keep what the row had (null in a new row).
UpsertInterview(db, interviews, target_interview, connection_id, t) ==
  LET existing == {r \in interviews : /\ r.remote_id = target_interview.remote_id
                                      /\ r.id_connection = connection_id}
  IN IF existing # {}
       THEN LET old == CHOOSE r \in existing : TRUE
                res == [old EXCEPT
                          !.status = target_interview.status,
                          !.application_id = target_interview.application_id,
                          !.job_interview_stage_id =
                             target_interview.job_interview_stage_id,
                          !.organized_by = target_interview.organized_by,
                          !.interviewers = target_interview.interviewers,
                          !.location = target_interview.location,
                          !.modified_at = t]
            IN [db |-> db, interviews |-> (interviews \ {old}) \cup {res},
                id |-> res.id_ats_interview]
       ELSE LET new == [id_ats_interview |-> Uuid(db.nextId),
                        status |-> target_interview.status,
                        application_id |-> target_interview.application_id,
                        job_interview_stage_id |->
                          target_interview.job_interview_stage_id,
                        organized_by |-> target_interview.organized_by,
                        interviewers |-> target_interview.interviewers,
                        location |-> target_interview.location,
                        id_ats_application |-> Null,
                        id_ats_job_interview_stage |-> Null,
                        created_at |-> t, modified_at |-> t,
                        remote_id |-> target_interview.remote_id,
                        id_connection |-> connection_id]
            IN [db |-> [db EXCEPT !.nextId = @ + 1],
                interviews |-> interviews \cup {new},
                id |-> new.id_ats_interview]

AddOutcome(db, interviews, evs, whs, error, result) ==
  [db |-> db, interviews |-> interviews, events |-> evs, webhooks |-> whs,
   error |-> error, result |-> result]

\* addInterview: resp is the provider's answer ([thrown |-> TRUE] when the
\* provider call rejects), target_interview what unify makes of resp.data.
\* Writes made before a throw stay.
addInterview(db, interviews, resp, target_interview, connection_id, integrationId, linkedUserId, with_remote_data, t) ==
  IF resp.thrown
    THEN AddOutcome(db, interviews, <<>>, <<>>, "Error: provider", Null)
  ELSE
    LET linkedUser == {l \in linked_users : l.id_linked_user = linkedUserId}
        up == UpsertInterview(db, interviews, target_interview, connection_id, t)
        db1 == StoreFieldMappings(up.db, target_interview, up.id, integrationId,
                                  linkedUserId)
        db2 == UpsertRemoteData(db1, up.id, resp.data, t)
        got == getInterview(db2, up.interviews, up.id, Null, Null,
                            with_remote_data, t)
        db3 == [db2 EXCEPT !.nextId = @ + Len(got.event)]
        status_resp == IF resp.statusCode = 201 THEN "success" ELSE "fail"
        event == InterviewCreatedEvent(Uuid(db3.nextId), status_resp,
                                       integrationId, linkedUserId, t)
        db4 == [db3 EXCEPT !.nextId = @ + 1]
    IN IF got.error # Null
         THEN AddOutcome(db2, up.interviews, <<>>, <<>>, got.error, Null)
       ELSE IF linkedUser = {}
         THEN AddOutcome(db4, up.interviews, got.event \o <<event>>, <<>>,
                         "TypeError", Null)
       ELSE AddOutcome(db4, up.interviews, got.event \o <<event>>,
                       <<WebhookCall(got.res, "ats.interview.created",
                                     (CHOOSE l \in linkedUser : TRUE).id_project,
                                     event.id_event)>>,
                       Null, got.res)

\* What a provider answers to addInterview, and the unified interview of it.
AddResponses ==
  {[thrown |-> TRUE, statusCode |-> 0, data |-> Null]} \cup
  {[thrown |-> FALSE, statusCode |-> c, data |-> d] :
     c \in {200, 201}, d \in {"r1", "r2"}}

TargetInterviews(resp) ==
  {[remote_id |-> resp.data, status |-> status, application_id |-> "app1",
    job_interview_stage_id |-> "stage1", organized_by |-> "usrA",
    interviewers |-> <<"usrB">>, location |-> "HQ",
    field_mappings |-> IF resp.data = "r2"
                         THEN ArrayMappings(<< <<"color", "red">> >>)
                         ELSE NoMappings] :
     status \in {"SCHEDULED", "COMPLETE"}}

\* One addInterview call.
AddInterviewCall ==
  /\ now < MaxCalls
  /\ \E resp \in AddResponses, linkedUserId \in {"lu1", "lu9"},
        with_remote_data \in BOOLEAN :
       \E target_interview \in TargetInterviews(resp) :
         LET out == addInterview(Tables, ats_interviews, resp, target_interview,
                                 "k1", "ashby", linkedUserId, with_remote_data, now)
         IN /\ entity' = out.db.entity
            /\ value' = out.db.value
            /\ remote_data' = out.db.remote_data
            /\ nextId' = out.db.nextId
            /\ ats_interviews' = out.interviews
            /\ events' = events \o out.events
            /\ webhooks' = webhooks \o out.webhooks
            /\ lastAdd' = [seq |-> now + 1, statusCode |-> resp.statusCode,
                           linkedUserId |-> linkedUserId,
                           with_remote_data |-> with_remote_data,
                           target_interview |-> target_interview,
                           error |-> out.error, result |-> out.result]
  /\ now' = now + 1
  /\ UNCHANGED <<fs_groups, saveVars, page, walk, syncVars, queueVars,
                 authVars, mapperVars, attachmentVars>>

\* One getInterview call from outside the service, with or without the
\* identifiers of the caller.
GetInterviewCall ==
  /\ now < MaxCalls
  /\ \E id \in {r.id_ats_interview : r \in ats_interviews} \cup {"i9"},
        caller \in {<<"lu1", "ashby">>, <<Null, Null>>},
        with_remote_data \in BOOLEAN :
       LET out == getInterview(Tables, ats_interviews, id, caller[1], caller[2],
                               with_remote_data, now)
       IN /\ events' = events \o out.event
          /\ nextId' = nextId + Len(out.event)
  /\ now' = now + 1
  /\ UNCHANGED <<fs_groups, entity, value, remote_data, webhooks, saveVars,
                 ats_interviews, page, walk, lastAdd, syncVars, queueVars,
                 authVars, mapperVars, attachmentVars>>

InitAddInterview == InitIdleCore /\ InitIdleRest

NextAddInterview == AddInterviewCall \/ GetInterviewCall

SpecAddInterview == InitAddInterview /\ [][NextAddInterview]_vars

IsAddStep == lastAdd'.seq # lastAdd.seq

\* C18: an addInterview call that returns appends exactly one events row, of
\* type 'ats.interview.created', with status 'success' when the provider
\* answered 201 and 'fail' otherwise, and exactly one webhook dispatch, of
\* type 'ats.interview.created', carrying that row's id and the interview the
\* call returns; no 'ats.interview.pull' row comes from its internal read.
C18_AddInterviewOneEventOneWebhook ==
  [][(IsAddStep /\ lastAdd'.error = Null) =>
       /\ Len(events') = Len(events) + 1
       /\ Len(webhooks') = Len(webhooks) + 1
       /\ SubSeq(events', 1, Len(events)) = events
       /\ SubSeq(webhooks', 1, Len(webhooks)) = webhooks
       /\ LET e == events'[Len(events')]
              w == webhooks'[Len(webhooks')]
          IN /\ e.type = "ats.interview.created"
             /\ e.status = (IF lastAdd'.statusCode = 201 THEN "success" ELSE "fail")
             /\ w.type = "ats.interview.created"
             /\ w.id_event = e.id_event
             /\ w.data = lastAdd'.result
             /\ \A k \in 1..Len(events) : events[k].id_event # e.id_event]_vars

\* An addInterview has returned after a provider answer other than 201, while
\* a getInterview from outside has left a pull event.
C18_Witness ==
  /\ lastAdd.seq > 0
  /\ lastAdd.error = Null
  /\ lastAdd.statusCode = 200
  /\ \E k \in 1..Len(events) : events[k].type = "ats.interview.pull"
  /\ \E k \in 1..Len(events) :
       events[k].type = "ats.interview.created" /\ events[k].status = "fail"

(***************************************************************************)
(* ZendeskTicketMapper: custom fields in desunify and in                   *)
(* mapSingleTicketToUnified.  customFieldMappings is [defined, list]: the  *)
(* optional parameter left out, or a list of [slug, remote_id].            *)
(***************************************************************************)
MaxFields == 2

MaxMappings == 2

\* customFieldMappings.find((mapping) => mapping.slug === k): the first
\* match, as a sequence of zero or one elements.
FindMappingFirst(list, k) == IF Len(list) > 0 THEN <<list[1]>> ELSE <<>>

FindMapping(list, k) ==
  LET hits == {i \in 1..Len(list) : list[i].slug = k}
  IN IF hits = {} THEN <<>>
     ELSE <<list[CHOOSE i \in hits : \A j \in hits : i <= j]>>

\* ticket.custom_fields.find((field) => field.id === mapping.remote_id)
FindCustomField(custom_fields, remote_id) ==
  LET hits == {i \in 1..Len(custom_fields) : custom_fields[i].id = remote_id}
  IN IF hits = {} THEN <<>>
     ELSE <<custom_fields[CHOOSE i \in hits : \A j \in hits : i <= j]>>

\* The loop of desunify over Object.entries(source.field_mappings).
RECURSIVE DesunifyFields(_, _, _, _)
DesunifyFields(entries, k, list, res) ==
  IF k > Len(entries) THEN res
  ELSE LET mapping == FindMapping(list, entries[k][1])
       IN DesunifyFields(entries, k + 1, list,
            IF mapping # <<>>
              THEN Append(res, [id |-> mapping[1].remote_id, value |-> entries[k][2]])
              ELSE res)

\* The custom_fields property of desunify's result: absent unless both
\* customFieldMappings and source.field_mappings are given.
DesunifyCustomFields(field_mappings, customFieldMappings) ==
  IF customFieldMappings.defined /\ field_mappings.kind # "none"
    THEN [present |-> TRUE,
          list |-> DesunifyFields(ObjectEntries(field_mappings), 1,
                                  customFieldMappings.list, <<>>)]
    ELSE [present |-> FALSE, list |-> <<>>]

\* The loop of mapSingleTicketToUnified over customFieldMappings.
RECURSIVE UnifyFields(_, _, _, _)
UnifyFields(custom_fields, list, k, pairs) ==
  IF k > Len(list) THEN pairs
  ELSE LET customField == FindCustomField(custom_fields, list[k].remote_id)
       IN UnifyFields(custom_fields, list, k + 1,
            IF customField # <<>>
              THEN MapSet(pairs, list[k].slug, customField[1].value)
              ELSE pairs)

\* field_mappings of the unified ticket; calling find on an absent
\* custom_fields throws.
UnifyFieldMappings(custom_fields, customFieldMappings) ==
  IF ~customFieldMappings.defined \/ customFieldMappings.list = <<>>
    THEN [error |-> Null, field_mappings |-> ObjectMappings(<<>>)]
  ELSE IF ~custom_fields.present
    THEN [error |-> "TypeError", field_mappings |-> NoMappings]
  ELSE [error |-> Null,
        field_mappings |->
          ObjectMappings(UnifyFields(custom_fields.list,
                                     customFieldMappings.list, 1, <<>>))]

Slugs == {"color", "size", "weight"}

FieldValues == {"red", "7"}

\* field_mappings a unified ticket may carry: absent, or an object of at most
\* MaxFields properties.
SourceFieldMappings ==
  {NoMappings} \cup
  {ObjectMappings(es) :
     es \in {s \in SeqsUpTo(Slugs \X FieldValues, MaxFields) :
               \A a, b \in 1..Len(s) : a # b => s[a][1] # s[b][1]}}

\* Mapping lists of a linked user: left out, or at most MaxMappings entries.
CustomFieldMappingLists ==
  {[defined |-> FALSE, list |-> <<>>]} \cup
  {[defined |-> TRUE, list |-> l] :
     l \in SeqsUpTo([slug : {"color", "size"}, remote_id : {"101", "102"}],
                    MaxMappings)}

(***************************************************************************)
(* ZendeskTicketMapper: the other fields.  An absent or undefined property *)
(* is Null, except comment.is_private, which is a boolean and absent when  *)
(* the comment record has no such field; arrays (tags, assigned_to) are    *)
(* carried as strings, the code only testing and copying them.             *)
(***************************************************************************)
\* s.toLowerCase() and s.toUpperCase() on the strings of the model
ToLowerCase(s) ==
  CASE s = "OPEN" -> "open" [] s = "CLOSED" -> "closed"
    [] s = "HIGH" -> "high" [] s = "LOW" -> "low" [] s = "MEDIUM" -> "medium"
    [] s = "PROBLEM" -> "problem" [] s = "TASK" -> "task"
    [] OTHER -> s

ToUpperCase(s) ==
  CASE s = "problem" -> "PROBLEM" [] s = "task" -> "TASK"
    [] s = "incident" -> "INCIDENT" [] s = "question" -> "QUESTION"
    [] OTHER -> s

\* source.comment.is_private as JavaScript reads it: undefined is falsy
IsPrivate(comment) == "is_private" \in DOMAIN comment /\ comment.is_private

\* !source.comment.is_private || true
CommentPublic(comment) == (~IsPrivate(comment)) \/ TRUE

\* desunify without the custom fields
DesunifyTicket(source) ==
  [description |-> source.description,
   subject |-> source.name,
   comment |-> [body |-> IF Truthy(source.comment.body)
                           THEN source.comment.body ELSE Null,
                public |-> CommentPublic(source.comment),
                uploads |-> IF source.attachments # Null
                              THEN source.attachments ELSE "[]",
                html_body |-> IF Truthy(source.comment.html_body)
                                THEN source.comment.html_body ELSE Null],
   assignee_email |-> IF Truthy(source.assigned_to) /\ source.assigned_to # "[]"
                        THEN "mail-of:" \o source.assigned_to ELSE Null,
   due_at |-> IF Truthy(source.due_date) THEN "iso:" \o source.due_date ELSE Null,
   priority |-> IF Truthy(source.priority)
                  THEN (IF source.priority = "MEDIUM" THEN "normal"
                        ELSE ToLowerCase(source.priority))
                  ELSE Null,
   status |-> IF Truthy(source.status) THEN ToLowerCase(source.status) ELSE Null,
   tags |-> IF Truthy(source.tags) THEN source.tags ELSE Null,
   type |-> IF Truthy(source.type) THEN ToLowerCase(source.type) ELSE Null,
   id |-> Null, assignee_id |-> Null]

\* let opts; and its three assignments, each a new object.  user_id is what
\* getUserUuidFromRemoteId answers (Null when it finds no user).
TicketOpts(zendesk, user_id) ==
  LET none == [assigned_to |-> Null, type |-> Null, tags |-> Null]
      opts1 == IF Truthy(zendesk.assignee_id) /\ Truthy(user_id)
                 THEN [none EXCEPT !.assigned_to = "[" \o user_id \o "]"]
                 ELSE none
      opts2 == IF Truthy(zendesk.type)
                 THEN [none EXCEPT !.type =
                         IF zendesk.type = "incident" THEN "PROBLEM"
                         ELSE ToUpperCase(zendesk.type)]
                 ELSE opts1
      opts3 == IF Truthy(zendesk.tags)
                 THEN [none EXCEPT !.tags = zendesk.tags]
                 ELSE opts2
  IN opts3

\* String(x)
JsString(x) == IF x = Null THEN "undefined" ELSE x

\* mapSingleTicketToUnified without field_mappings
UnifyTicket(zendesk, user_id) ==
  LET opts == TicketOpts(zendesk, user_id)
  IN [remote_id |-> JsString(zendesk.id),
      name |-> zendesk.subject,
      status |-> IF zendesk.status = "new" \/ zendesk.status = "open"
                   THEN "OPEN" ELSE "CLOSED",
      description |-> zendesk.description,
      due_date |-> IF Truthy(zendesk.due_at) THEN zendesk.due_at ELSE Null,
      parent_ticket |-> Null,
      priority |-> zendesk.priority,
      assigned_to |-> opts.assigned_to,
      type |-> opts.type,
      tags |-> opts.tags]

\* The unified ticket the custom field checks start from.
PlainSource ==
  [name |-> "printer", description |-> "broken",
   comment |-> [body |-> "hi", html_body |-> Null], attachments |-> Null,
   assigned_to |-> Null, due_date |-> Null,
   priority |-> Null, status |-> Null, type |-> Null, tags |-> Null]

\* Unified tickets that differ in comment.is_private, priority, status, type
\* and tags.
SourceTickets ==
  {[PlainSource EXCEPT !.comment = c, !.priority = p, !.status = st,
                       !.type = ty, !.tags = tg] :
     c \in {[body |-> "hi", html_body |-> Null],
            [body |-> "hi", html_body |-> "<p>hi</p>", is_private |-> TRUE],
            [body |-> "", html_body |-> Null, is_private |-> FALSE]},
     p \in {Null, "HIGH", "MEDIUM", "LOW"}, st \in {Null, "OPEN", "CLOSED"},
     ty \in {Null, "PROBLEM", "TASK"}, tg \in {Null, "[t1]"}}

\* Tickets as Zendesk returns them.
ZendeskTickets ==
  {[id |-> "35", description |-> "broken", subject |-> "printer",
    due_at |-> Null, status |-> st,
    priority |-> p, assignee_id |-> a, type |-> ty, tags |-> tg] :
     st \in {"new", "open", "pending", "solved"}, p \in {Null, "high"},
     a \in {Null, "7"}, ty \in {Null, "incident", "task"},
     tg \in {Null, "[]", "[t1]"}}

\* What getUserUuidFromRemoteId answers.
UserUuids == {Null, "usrA"}

IdleButTicket ==
  /\ InitIdleCore
  /\ auth_users = {}
  /\ auth_projects = {}
  /\ api_keys = {}
  /\ registers = {}
  /\ lastAuth = NoAuth
  /\ lastAdd = NoAdd
  /\ ats_candidate_attachments = {}
  /\ savers = {}

InitMapper ==
  /\ IdleButTicket
  /\ \E fm \in SourceFieldMappings, cfm \in CustomFieldMappingLists :
       ticket = [stage |-> "source", source |-> PlainSource,
                 field_mappings |-> fm, customFieldMappings |-> cfm]

\* desunify(source, customFieldMappings)
Desunify ==
  /\ ticket.stage = "source"
  /\ ticket' = [stage |-> "desunified",
                source |-> ticket.source,
                zendesk |-> DesunifyTicket(ticket.source),
                field_mappings |-> ticket.field_mappings,
                customFieldMappings |-> ticket.customFieldMappings,
                custom_fields |->
                  DesunifyCustomFields(ticket.field_mappings,
                                       ticket.customFieldMappings)]
  /\ UNCHANGED <<fs_groups, entity, value, remote_data, events, webhooks,
                 nextId, now, saveVars, interviewVars, syncVars, queueVars,
                 authVars, attachmentVars>>

\* unify(ticket, connectionId, customFieldMappings) on the ticket desunify
\* made, or on one fetched from Zendesk
Unify ==
  /\ ticket.stage \in {"desunified", "fetched"}
  /\ \E user_id \in (IF Truthy(ticket.zendesk.assignee_id)
                        THEN UserUuids ELSE {Null}) :
     LET out == UnifyFieldMappings(ticket.custom_fields,
                                   ticket.customFieldMappings)
     IN ticket' = [stage |-> "unified",
                   from |-> ticket.stage,
                   source |-> ticket.source,
                   zendesk |-> ticket.zendesk,
                   user_id |-> user_id,
                   result |-> UnifyTicket(ticket.zendesk, user_id),
                   field_mappings |-> ticket.field_mappings,
                   customFieldMappings |-> ticket.customFieldMappings,
                   custom_fields |-> ticket.custom_fields,
                   error |-> out.error,
                   unified |-> out.field_mappings]
  /\ UNCHANGED <<fs_groups, entity, value, remote_data, events, webhooks,
                 nextId, now, saveVars, interviewVars, syncVars, queueVars,
                 authVars, attachmentVars>>

NextMapper == Desunify \/ Unify

\* The mapper on tickets that differ in the other fields: a unified ticket
\* to desunify, or a Zendesk ticket to unify.
InitTicketFields ==
  /\ IdleButTicket
  /\ \/ \E source \in SourceTickets :
          ticket = [stage |-> "source", source |-> source,
                    field_mappings |-> NoMappings,
                    customFieldMappings |-> [defined |-> FALSE, list |-> <<>>]]
     \/ \E zendesk \in ZendeskTickets :
          ticket = [stage |-> "fetched", source |-> PlainSource,
                    zendesk |-> zendesk,
                    field_mappings |-> NoMappings,
                    customFieldMappings |-> [defined |-> FALSE, list |-> <<>>],
                    custom_fields |-> [present |-> FALSE, list |-> <<>>]]

SpecTicketFields == InitTicketFields /\ [][NextMapper]_vars

SpecMapper == InitMapper /\ [][NextMapper]_vars

DistinctMappings(list) ==
  \A a, b \in 1..Len(list) :
    a # b => list[a].slug # list[b].slug /\ list[a].remote_id # list[b].remote_id

\* The properties of an object, as a set of <<key, value>>.
PropertiesOf(fm) == {fm.entries[k] : k \in 1..Len(fm.entries)}

MappedSlugs(list) == {list[k].slug : k \in 1..Len(list)}

\* C19: with a mapping list of distinct slugs and distinct remote_ids, the
\* custom_fields desunify makes hold one field per mapped slug of the source,
\* and unify of them returns field_mappings with exactly the source's
\* properties whose slug is mapped, each with the source's value.
C19_CustomFieldsRoundTrip ==
  (/\ ticket.stage = "unified"
   /\ ticket.customFieldMappings.defined
   /\ DistinctMappings(ticket.customFieldMappings.list)
   /\ ticket.field_mappings.kind = "object")
  => /\ ticket.error = Null
     /\ ticket.unified.kind = "object"
     /\ PropertiesOf(ticket.unified) =
          {p \in PropertiesOf(ticket.field_mappings) :
             p[1] \in MappedSlugs(ticket.customFieldMappings.list)}
     /\ Len(ticket.custom_fields.list) = Cardinality(PropertiesOf(ticket.unified))

\* A source with a mapped and an unmapped slug has gone through both
\* directions under a list of two mappings, one of them for a slug the source
\* does not have.
C19_Witness ==
  /\ ticket.stage = "unified"
  /\ ticket.customFieldMappings.defined
  /\ DistinctMappings(ticket.customFieldMappings.list)
  /\ Len(ticket.customFieldMappings.list) = 2
  /\ ticket.field_mappings.kind = "object"
  /\ \E p, q \in PropertiesOf(ticket.field_mappings) :
       /\ p[1] = "color"
       /\ q[1] = "weight"
  /\ PropertiesOf(ticket.unified) # {}

(***************************************************************************)
(* ats/attachment SyncService.saveToDb.  savers holds the runs in flight,  *)
(* each at an await of its loop: pc "find" before findFirst of element i,  *)
(* pc "write" between findFirst and update/create; results is its          *)
(* attachments_results.  The table is as the                               *)
(* code treats it: looked up with findFirst, nothing rejecting a second    *)
(* row with the same remote_id and id_connection.                          *)
(***************************************************************************)
\* Batches of unified attachments a sync hands to saveToDb, by remote_id.
AttachmentBatches ==
  {<<"at1">>, <<"at1", "at1">>, <<"">>, <<"at2", "", "at1">>, <<"at1", Null>>}

\* field_mappings of the attachment with the given remote_id: at2 carries one.
AttachmentFieldMappings(originId) ==
  IF originId = "at2" THEN ArrayMappings(<< <<"color", "red">> >>)
  ELSE NoMappings

\* if (!originId || originId === '')
OriginIdMissingOnlyUndefined(originId) == originId = Null

OriginIdMissing(originId) == ~Truthy(originId) \/ originId = ""

\* prisma.ats_candidate_attachments.findFirst({ where: { remote_id, id_connection } })
FindFirstAttachment(rows, originId, connection_id) ==
  {r \in rows : r.remote_id = originId /\ r.id_connection = connection_id}

\* saveToDb is called: by the @Cron run or by the queued job, through
\* syncForLinkedUser.
SaveToDbStart ==
  /\ \E caller \in 1..MaxCalls, connection_id \in {"k1", "k2"},
        attachments \in AttachmentBatches :
       /\ \A s \in savers : s.caller # caller
       /\ savers' = savers \cup
            {[caller |-> caller, connection_id |-> connection_id,
              attachments |-> attachments, i |-> 1, pc |-> "find",
              existing |-> {}, results |-> <<>>]}
  /\ UNCHANGED <<fs_groups, entity, value, remote_data, events, webhooks,
                 nextId, now, saveVars, interviewVars, syncVars, queueVars,
                 authVars, mapperVars, ats_candidate_attachments>>

\* The head of the loop up to the awaited findFirst.
SaveToDbFind ==
  /\ \E s \in savers :
       /\ s.pc = "find"
       /\ IF s.i > Len(s.attachments)
            THEN savers' = (savers \ {s}) \cup {[s EXCEPT !.pc = "returned"]}
          ELSE IF OriginIdMissing(s.attachments[s.i])
            THEN savers' = (savers \ {s}) \cup {[s EXCEPT !.pc = "thrown"]}
          ELSE
            LET found == FindFirstAttachment(ats_candidate_attachments,
                                             s.attachments[s.i], s.connection_id)
            IN \E existing \in (IF found = {} THEN {{}} ELSE {{r} : r \in found}) :
                 savers' = (savers \ {s}) \cup
                             {[s EXCEPT !.pc = "write", !.existing = existing]}
  /\ UNCHANGED <<fs_groups, entity, value, remote_data, events, webhooks,
                 nextId, now, saveVars, interviewVars, syncVars, queueVars,
                 authVars, mapperVars, ats_candidate_attachments>>

\* update or create, then processFieldMappings and processRemoteData of the
\* ingest service (the entity/value and remote_data writes the other services
\* of the repository make inline), and the next turn of the loop.
SaveToDbWrite ==
  /\ \E s \in savers :
       /\ s.pc = "write"
       /\ LET originId == s.attachments[s.i]
              res == IF s.existing # {}
                       THEN [(CHOOSE r \in s.existing : TRUE) EXCEPT !.modified_at = now]
                       ELSE [id_ats_candidate_attachment |-> Uuid(nextId),
                             created_at |-> now, modified_at |-> now,
                             remote_id |-> originId,
                             id_connection |-> s.connection_id]
              db == IF s.existing # {} THEN Tables
                    ELSE [Tables EXCEPT !.nextId = @ + 1]
              db1 == UpsertRemoteData(
                       StoreFieldMappings(db, [field_mappings |->
                                                 AttachmentFieldMappings(originId)],
                                          res.id_ats_candidate_attachment,
                                          "ashby", "lu1"),
                       res.id_ats_candidate_attachment, "raw-" \o originId, now)
          IN /\ ats_candidate_attachments' =
                  {r \in ats_candidate_attachments :
                     r.id_ats_candidate_attachment # res.id_ats_candidate_attachment}
                  \cup {res}
             /\ entity' = db1.entity
             /\ value' = db1.value
             /\ remote_data' = db1.remote_data
             /\ nextId' = db1.nextId
             /\ savers' = (savers \ {s}) \cup
                            {[s EXCEPT !.pc = "find", !.i = @ + 1, !.existing = {},
                                        !.results = Append(@, res)]}
  /\ UNCHANGED <<fs_groups, events, webhooks, now, saveVars, interviewVars,
                 syncVars, queueVars, authVars, mapperVars>>

InitAttachments ==
  /\ InitIdleCore
  /\ auth_users = {}
  /\ auth_projects = {}
  /\ api_keys = {}
  /\ registers = {}
  /\ lastAuth = NoAuth
  /\ lastAdd = NoAdd
  /\ ticket = NoTicket
  /\ ats_candidate_attachments = {}
  /\ savers = {}

NextAttachments == SaveToDbStart \/ SaveToDbFind \/ SaveToDbWrite

SpecAttachments == InitAttachments /\ [][NextAttachments]_vars

\* C20: whatever the interleaving of saveToDb runs, no two rows of
\* ats_candidate_attachments have the same remote_id and id_connection.
C20_OneRowPerRemoteIdAndConnection ==
  \A a, b \in ats_candidate_attachments :
    (a.remote_id = b.remote_id /\ a.id_connection = b.id_connection) => a = b

(***************************************************************************)
(* ats/attachment SyncService.syncAttachments.  run is the call of         *)
(* syncAttachments: settled tells whether its promise is pending, resolved *)
(* or rejected.  tasks are the callbacks linkedUsers.map(async ...)        *)
(* started; a task that is "running" has a syncAttachmentsForLinkedUser    *)
(* call in flight, and calls keeps the calls that have finished, with the  *)
(* time each finished at.                                                  *)
(***************************************************************************)
\* The provider list imported from @panora/shared.
ATS_PROVIDERS == <<"ashby", "greenhouse">>

\* How a syncAttachmentsForLinkedUser call ends: no service registered for
\* the provider (it returns at once), the ingest ran, the ingest threw.
AttachmentSyncOutcomes == {"no service", "synced", "threw"}

\* The callback after a call that ended with `outcome`: the catch blocks
\* rethrow, which ends the callback; otherwise the loop goes to the next
\* provider.
AfterProviderIgnoreThrow(task, outcome, t) ==
  LET made == [task EXCEPT !.calls =
                 Append(@, [provider |-> ATS_PROVIDERS[task.next],
                            threw |-> outcome = "threw", at |-> t])]
  IN IF task.next = Len(ATS_PROVIDERS)
       THEN [made EXCEPT !.status = "done"]
       ELSE [made EXCEPT !.next = @ + 1]

AfterProvider(task, outcome, t) ==
  LET made == [task EXCEPT !.calls =
                 Append(@, [provider |-> ATS_PROVIDERS[task.next],
                            threw |-> outcome = "threw", at |-> t])]
  IN IF outcome = "threw" THEN [made EXCEPT !.status = "failed"]
     ELSE IF task.next = Len(ATS_PROVIDERS)
       THEN [made EXCEPT !.status = "done"]
     ELSE [made EXCEPT !.next = @ + 1]

\* The cron fires, or syncAttachments is called with a user id.  With no
\* project to visit the promise settles at once; reading a field of a user
\* that findUnique did not find rejects it.
SyncAttachmentsStart ==
  /\ ~run.started
  /\ \E user_id \in {Null, "usr1", "usr2", "usr9"} :
       LET missing == Truthy(user_id) /\ FindUniqueUser(user_id) = {}
           todo == IF missing THEN {} ELSE ProjectsOf(UsersOf(user_id))
       IN run' = [started |-> TRUE, user_id |-> user_id, todo |-> todo,
                  error |-> IF missing THEN "TypeError" ELSE Null,
                  settled |-> IF missing THEN "rejected"
                              ELSE IF todo = {} THEN "resolved"
                              ELSE "pending"]
  /\ tasks' = {}
  /\ UNCHANGED <<fs_groups, entity, value, remote_data, events, webhooks, nextId,
                 now, saveVars, interviewVars, queueVars, lastRun,
                 authVars, mapperVars, attachmentVars>>

\* The loops reach a project: linkedUsers.map(async ...) starts a callback
\* for each linked user and is not awaited; after the last project the
\* function returns.
SyncAttachmentsProject ==
  /\ run.started
  /\ \E project \in run.todo :
       /\ run' = [run EXCEPT !.todo = @ \ {project},
                             !.settled = IF run.todo = {project}
                                           THEN "resolved" ELSE @]
       /\ tasks' = tasks \cup
            {[linkedUser |-> linkedUser, id_project |-> project.id_project,
              next |-> 1, status |-> "running", calls |-> <<>>] :
               linkedUser \in LinkedUsersOf(project.id_project)}
  /\ UNCHANGED <<fs_groups, entity, value, remote_data, events, webhooks, nextId,
                 now, saveVars, interviewVars, queueVars, lastRun,
                 authVars, mapperVars, attachmentVars>>

\* The syncAttachmentsForLinkedUser call a callback has in flight ends.
SyncAttachmentsForLinkedUser ==
  /\ \E task \in tasks, outcome \in AttachmentSyncOutcomes :
       /\ task.status = "running"
       /\ tasks' = (tasks \ {task}) \cup {AfterProvider(task, outcome, now + 1)}
  /\ now' = now + 1
  /\ UNCHANGED <<fs_groups, entity, value, remote_data, events, webhooks, nextId,
                 run, saveVars, interviewVars, queueVars, lastRun,
                 authVars, mapperVars, attachmentVars>>

InitAttachmentSync == InitIdleCore /\ InitIdleRest

NextAttachmentSync ==
  SyncAttachmentsStart \/ SyncAttachmentsProject \/ SyncAttachmentsForLinkedUser

SpecAttachmentSync == InitAttachmentSync /\ [][NextAttachmentSync]_vars

\* C21: once the promise of syncAttachments has resolved, no
\* syncAttachmentsForLinkedUser call of the run is still in flight and none
\* has thrown (a throw would have rejected the promise instead).
C21_ResolvedAfterAllCalls ==
  (run.started /\ run.settled = "resolved")
    => \A task \in tasks : task.status = "done"

TaskOf(ts, id_linked_user) ==
  {task \in ts : task.linkedUser.id_linked_user = id_linked_user}

\* The calls of a callback follow ATS_PROVIDERS, each finishing before the
\* next, and nothing follows a call that threw.
InProviderOrder(task) ==
  LET n == Len(task.calls)
  IN /\ n <= Len(ATS_PROVIDERS)
     /\ \A k \in 1..n : task.calls[k].provider = ATS_PROVIDERS[k]
     /\ \A k \in 1..(n - 1) :
          ~task.calls[k].threw /\ task.calls[k].at < task.calls[k + 1].at
     /\ (task.status = "failed") = (n > 0 /\ task.calls[n].threw)
     /\ (task.status = "done") = (n = Len(ATS_PROVIDERS) /\ ~task.calls[n].threw)

\* C22: within a linked user the providers are synced one after another in
\* ATS_PROVIDERS order and a throw ends that linked user's syncs; a step of
\* one linked user's sync, a throw included, leaves the syncs of the other
\* linked users as they were, each still able to go on.
C22_ProvidersInOrderPerLinkedUser ==
  [][/\ \A task \in tasks' : InProviderOrder(task)
     /\ (now' # now) =>
          \E task \in tasks :
            /\ task.status = "running"
            /\ tasks' \ TaskOf(tasks', task.linkedUser.id_linked_user)
                 = tasks \ {task}
            /\ Cardinality(TaskOf(tasks', task.linkedUser.id_linked_user)) = 1]_vars

\* Two linked users of one project: the first provider of one threw, after
\* which the other went through both providers, its calls on either side of
\* a call of the first.
C22_Witness ==
  \E a, b \in tasks :
    /\ a.id_project = b.id_project
    /\ a.status = "failed"
    /\ Len(a.calls) = 1
    /\ b.status = "done"
    /\ b.calls[1].at < a.calls[1].at
    /\ a.calls[1].at < b.calls[2].at

\* Index of the first attachment without a remote_id; past the end of the
\* array when each has one.
FirstWithoutRemoteId(attachments) ==
  LET missing == {k \in 1..Len(attachments) : attachments[k] \in {Null, ""}}
  IN IF missing = {} THEN Len(attachments) + 1
     ELSE CHOOSE k \in missing : \A j \in missing : k <= j

\* The row a run wrote for element k of its array is in the table with that
\* element's remote_id, its remote data and, when the element has field
\* mappings, their entity.
WrittenWithMappingsAndRemoteData(s, k) ==
  \E r \in ats_candidate_attachments :
    /\ r.id_ats_candidate_attachment = s.results[k].id_ats_candidate_attachment
    /\ r.remote_id = s.attachments[k]
    /\ r.id_connection = s.connection_id
    /\ \E d \in remote_data :
         /\ d.ressource_owner_id = r.id_ats_candidate_attachment
         /\ d.data = JsonStringify("raw-" \o s.attachments[k])
    /\ AttachmentFieldMappings(s.attachments[k]) # NoMappings =>
         \E e \in entity : e.ressource_owner_id = r.id_ats_candidate_attachment

C24_ReturnedInterviewMatchesUnified ==
  (lastAdd.seq > 0 /\ lastAdd.error = Null) =>
    /\ lastAdd.result.remote_id = lastAdd.target_interview.remote_id
    /\ lastAdd.result.status = lastAdd.target_interview.status
    /\ lastAdd.result.application_id = lastAdd.target_interview.application_id
    /\ lastAdd.result.job_interview_stage_id =
         lastAdd.target_interview.job_interview_stage_id
    /\ lastAdd.result.organized_by = lastAdd.target_interview.organized_by
    /\ lastAdd.result.interviewers = lastAdd.target_interview.interviewers
    /\ lastAdd.result.location = lastAdd.target_interview.location

\* C24 (the fields that are read back from the column they were written to):
\* remote_id, status, organized_by, interviewers and location of the returned
\* interview are those of the unified object, on both paths.
C24_SameColumnFieldsMatch ==
  (lastAdd.seq > 0 /\ lastAdd.error = Null) =>
    /\ lastAdd.result.remote_id = lastAdd.target_interview.remote_id
    /\ lastAdd.result.status = lastAdd.target_interview.status
    /\ lastAdd.result.organized_by = lastAdd.target_interview.organized_by
    /\ lastAdd.result.interviewers = lastAdd.target_interview.interviewers
    /\ lastAdd.result.location = lastAdd.target_interview.location

\* The groups of the call in flight that address row r.
IncomingFor(r) ==
  {call.groups[k] : k \in {j \in 1..Len(call.groups) :
      /\ call.groups[j].remote_id = r.remote_id
      /\ call.connection_id = r.id_connection}}

\* C25: a run of saveGroupsInDb keeps id_fs_group, remote_id, id_connection
\* and created_at of every stored group; name, users and remote_was_deleted
\* change only to a truthy value of an incoming group for that row, a row
\* no incoming group addresses keeps modified_at too, and a stored
\* remote_was_deleted that is true stays true.
C25_UpdateChangesOnlyTruthyFields ==
  [][IsSaveRun =>
       \A r \in fs_groups :
         \E q \in fs_groups' :
           /\ q.id_fs_group = r.id_fs_group
           /\ q.remote_id = r.remote_id
           /\ q.id_connection = r.id_connection
           /\ q.created_at = r.created_at
           /\ (q.name # r.name) =>
                \E g \in IncomingFor(r) : Truthy(g.name) /\ g.name = q.name
           /\ (q.users # r.users) =>
                \E g \in IncomingFor(r) : Truthy(g.users) /\ g.users = q.users
           /\ (q.remote_was_deleted # r.remote_was_deleted) =>
                \E g \in IncomingFor(r) : g.remote_was_deleted
           /\ r.remote_was_deleted => q.remote_was_deleted
           /\ (q.modified_at # r.modified_at) => IncomingFor(r) # {}]_vars

\* A group stored as deleted, named eng, has since been updated by a group
\* with an empty name, other users and remote_was_deleted false.
C25_Witness ==
  \E r \in fs_groups :
    /\ r.modified_at > r.created_at
    /\ r.name = "eng"
    /\ r.users = "[u2]"
    /\ r.remote_was_deleted

\* C26: the comment desunify sends has public equal to the negation of the
\* source comment's is_private, an absent is_private counting as false.
C26_PublicIsNotPrivate ==
  (ticket.stage = "desunified") =>
    (ticket.zendesk.comment.public = ~IsPrivate(ticket.source.comment))

\* C26 (the comments that are not private): a comment whose is_private is
\* false or absent is sent with public true.
C26_NotPrivateIsPublic ==
  (ticket.stage = "desunified" /\ ~IsPrivate(ticket.source.comment)) =>
    ticket.zendesk.comment.public

\* C27: the unified ticket made from a Zendesk ticket has assigned_to when
\* assignee_id resolves to a user, type when the ticket has a type and tags
\* when it has tags, all three together when all three apply.
C27_AllOptionalFieldsCarried ==
  (ticket.stage = "unified" /\ ticket.from = "fetched") =>
    /\ (Truthy(ticket.zendesk.assignee_id) /\ Truthy(ticket.user_id)) =>
         ticket.result.assigned_to = "[" \o ticket.user_id \o "]"
    /\ Truthy(ticket.zendesk.type) => Truthy(ticket.result.type)
    /\ Truthy(ticket.zendesk.tags) => ticket.result.tags = ticket.zendesk.tags

\* C27 (what the result does carry): the last of the three that applies, in
\* the order assigned_to, type, tags, and none of the others.
C27_OnlyLastOptionalFieldCarried ==
  (ticket.stage = "unified" /\ ticket.from = "fetched") =>
    LET r == ticket.result
        z == ticket.zendesk
    IN /\ Truthy(z.tags) =>
            (r.tags = z.tags /\ r.type = Null /\ r.assigned_to = Null)
       /\ (~Truthy(z.tags) /\ Truthy(z.type)) =>
            (Truthy(r.type) /\ r.tags = Null /\ r.assigned_to = Null)

\* C28: unify of the ticket desunify made of a unified ticket with status
\* OPEN or CLOSED and a priority returns that status and that priority.
C28_StatusAndPriorityRoundTrip ==
  (/\ ticket.stage = "unified"
   /\ ticket.from = "desunified"
   /\ ticket.source.status \in {"OPEN", "CLOSED"}
   /\ Truthy(ticket.source.priority))
  => /\ ticket.result.status = ticket.source.status
     /\ ticket.result.priority = ticket.source.priority

\* C28 (status alone): the status of a unified ticket with status OPEN or
\* CLOSED survives the round trip.
C28_StatusRoundTrip ==
  (/\ ticket.stage = "unified"
   /\ ticket.from = "desunified"
   /\ ticket.source.status \in {"OPEN", "CLOSED"})
  => ticket.result.status = ticket.source.status

====
